---- MODULE Spec2Model ----
(***************************************************************************)
(* A model of matrix-cli's configuration core: the environment resolver,   *)
(* the provider metadata synchronizer, the configuration loader and saver, *)
(* and the provider/model builder.                                         *)
(*                                                                         *)
(* Go strings are sequences of one-character strings, so that the          *)
(* resolver's scan is computed and not assumed.  Go maps are functions     *)
(* whose DOMAIN is the key set.  A nil pointer is the empty sequence and a *)
(* non-nil pointer a one-element sequence.                                 *)
(***************************************************************************)
EXTENDS Integers, Sequences, FiniteSets, TLC

VARIABLES
    environ,      \* the process environment (os.Environ), name -> value
    globalFile,   \* $XDG_CONFIG_HOME/matrix/matrix.json
    projectFile,  \* the project matrix.json found by findProjectConfig
    cacheFile,    \* <data dir>/providers.json
    dataDirOK,    \* whether the cache directory can be created and written
    now,          \* the wall clock, in hours
    pc,           \* position of the session: what has run last
    cfg,          \* the *Config held in memory by the session
    loadErr,      \* the error of the last Load / LoadFromFile
    savedFile,    \* the file written by the last SaveToFile
    provResult,   \* the result of the last LoadProviders / UpdateProviders
    builder,      \* the Builder: its cache and what it has constructed
    built,        \* the result of the last BuildModels call
    merge,        \* the operands and the result of the mergeConfig calls
    resolver,     \* the *Resolver: the environment it captured
    resolved,     \* the last Resolve call: its input and what it returned
    wizard,       \* the setup *Wizard and its sub-components
    inflight,     \* the commands running and the messages not yet delivered
    wlog,         \* what the wizard session has done so far
    issuedToken,  \* an *oauth.Token and the last answer of its IsExpired
    fsys,         \* the directories searched for a project file, and the cwd
    found         \* what the last findProjectConfig call returned

\* The state of the terminal interface, of the token and of the project
\* file search.
tuiVars == <<wizard, inflight, wlog, issuedToken, fsys, found>>

vars == <<environ, globalFile, projectFile, cacheFile, dataDirOK, now, pc,
          cfg, loadErr, savedFile, provResult, builder, built, merge,
          resolver, resolved, tuiVars>>

----------------------------------------------------------------------------
(* Strings *)

EmptyStr == <<>>

\* [a-zA-Z_], the first character of a variable name in varPattern.
NameStart == {"A", "E", "U", "k", "s", "_"}

\* [a-zA-Z0-9_], the later characters of a variable name in varPattern.
NameChar == NameStart \cup {"1"}

\* strings.Contains(value, "$")
ContainsDollar(value) == \E i \in 1..Len(value) : value[i] = "$"

\* The end of the longest run of name characters starting at position i
\* (i - 1 when there is none): the greedy [a-zA-Z0-9_]* of varPattern.
RECURSIVE NameEnd(_, _)
NameEnd(value, i) ==
    IF i <= Len(value) /\ value[i] \in NameChar
    THEN NameEnd(value, i + 1)
    ELSE i - 1

\* The match of varPattern that starts at position i, if any:
\* [ok, name, last] with last the position of the match's last character.
\* The braced alternative is tried first, as the pattern lists it first.
MatchAt(value, i) ==
    LET n == Len(value)
        braced == /\ i + 2 <= n
                  /\ value[i] = "$"
                  /\ value[i + 1] = "{"
                  /\ value[i + 2] \in NameStart
                  /\ NameEnd(value, i + 3) + 1 <= n
                  /\ value[NameEnd(value, i + 3) + 1] = "}"
        plain == /\ i + 1 <= n
                 /\ value[i] = "$"
                 /\ value[i + 1] \in NameStart
    IN  IF braced
        THEN [ok |-> TRUE,
              name |-> SubSeq(value, i + 2, NameEnd(value, i + 3)),
              last |-> NameEnd(value, i + 3) + 1]
        ELSE IF plain
        THEN [ok |-> TRUE,
              name |-> SubSeq(value, i + 1, NameEnd(value, i + 2)),
              last |-> NameEnd(value, i + 2)]
        ELSE [ok |-> FALSE, name |-> <<>>, last |-> i]

\* varPattern.ReplaceAllStringFunc with Resolve's callback, from position i:
\* the text produced and the undefined names met, in order.
RECURSIVE Expand(_, _, _)
Expand(env, value, i) ==
    IF i > Len(value)
    THEN [out |-> <<>>, errs |-> <<>>]
    ELSE LET m == MatchAt(value, i)
         IN  IF m.ok
             THEN LET rest == Expand(env, value, m.last + 1)
                  IN  IF m.name \in DOMAIN env
                      THEN [out |-> env[m.name] \o rest.out, errs |-> rest.errs]
                      ELSE [out |-> SubSeq(value, i, m.last) \o rest.out,
                            errs |-> <<m.name>> \o rest.errs]
             ELSE LET rest == Expand(env, value, i + 1)
                  IN  [out |-> <<value[i]>> \o rest.out, errs |-> rest.errs]

\* Whether the string holds a $NAME or ${NAME} reference.
HasReference(value) == \E i \in 1..Len(value) : MatchAt(value, i).ok

\* Resolver.Resolve: [val, errs]; errs is non-empty exactly when the call
\* returns an error, and then val is "".
Resolve(env, value) ==
    IF ~ContainsDollar(value)
    THEN [val |-> value, errs |-> <<>>]
    ELSE LET r == Expand(env, value, 1)
         IN  IF Len(r.errs) > 0
             THEN [val |-> EmptyStr, errs |-> r.errs]
             ELSE [val |-> r.out, errs |-> <<>>]

\* NewResolver(): the Resolver's own map, filled from os.Environ().
NewResolver(osEnv) == [env |-> [n \in DOMAIN osEnv |-> osEnv[n]]]

\* NewResolverWithEnv(env)
NewResolverWithEnv(env) == [env |-> env]

\* r.Resolve(value) that looks names up in the process environment.
ResolverResolve_Live(r, osEnv, value) == Resolve(osEnv, value)

\* r.Resolve(value) in a process whose environment is osEnv at the time of
\* the call.
ResolverResolve(r, osEnv, value) == Resolve(r.env, value)

----------------------------------------------------------------------------
(* Data model *)

Nil == <<>>

Some(x) == <<x>>

\* The empty Go map.
EmptyMap == [k \in {} |-> Nil]

\* m with key k set to v (m[k] = v on a Go map).
Put(m, k, v) == [x \in DOMAIN m \cup {k} |-> IF x = k THEN v ELSE m[x]]

\* delete(m, k)
Delete(m, k) == [x \in DOMAIN m \ {k} |-> m[x]]

SelectedModelTypeLarge == "large"

SelectedModelTypeSmall == "small"

\* SelectedModel: the fields the core reads.
SelectedModel(model, provider, think) ==
    [Model |-> model, Provider |-> provider, Think |-> think]

\* catwalk.Model: id and display name.
CatwalkModel(id, name) == [ID |-> id, Name |-> name]

\* The zero catwalk.Model.
ZeroCatwalkModel == CatwalkModel("", "")

\* ProviderConfig as json.Unmarshal leaves it for an entry that gives only
\* these fields: every other field keeps its zero value.
ProviderConfig(apiKey, disable, oauth) ==
    [ID |-> "", Name |-> "", Type |-> "", BaseURL |-> EmptyStr,
     APIKey |-> apiKey, Disable |-> disable, ExtraHeaders |-> Nil,
     Models |-> <<>>, OAuthToken |-> oauth]

\* Options{} with its zero values.
ZeroOptions == [ContextPaths |-> <<>>, DataDir |-> "", Debug |-> FALSE]

\* NewConfig()
NewConfig ==
    [Models |-> EmptyMap, Providers |-> EmptyMap, Options |-> Some(ZeroOptions),
     knownProviders |-> <<>>]

\* Config.GetModel: a pointer to the first model of the provider with that id.
GetModel(c, providerID, modelID) ==
    IF providerID \notin DOMAIN c.Providers
    THEN Nil
    ELSE LET ms == c.Providers[providerID].Models
             hits == {i \in 1..Len(ms) : ms[i].ID = modelID}
         IN  IF hits = {}
             THEN Nil
             ELSE Some(ms[CHOOSE i \in hits : \A j \in hits : i <= j])

----------------------------------------------------------------------------
(* Provider metadata synchronizer (providers.go) *)

\* cacheMaxAge, in hours.
cacheMaxAge == 24

\* catwalk.Provider: the fields the loader reads.
CatwalkProvider(id, name, type, endpoint, large, small, models) ==
    [ID |-> id, Name |-> name, Type |-> type, APIEndpoint |-> endpoint,
     DefaultLargeModelID |-> large, DefaultSmallModelID |-> small,
     Models |-> models]

TypeOpenAI == "openai"

TypeOpenAICompat == "openai-compat"

TypeAnthropic == "anthropic"

MetaOpenAI ==
    CatwalkProvider("openai", "OpenAI", TypeOpenAI, <<"o">>, "gpt-4o", "gpt-4o-mini",
                    <<CatwalkModel("gpt-4o", "GPT-4o"),
                      CatwalkModel("gpt-4o-mini", "GPT-4o Mini")>>)

MetaAnthropic ==
    CatwalkProvider("anthropic", "Anthropic", TypeAnthropic, <<"a">>,
                    "claude-opus", "claude-haiku",
                    <<CatwalkModel("claude-opus", "Claude Opus"),
                      CatwalkModel("claude-haiku", "Claude Haiku")>>)

\* A descriptor that declares a large default only.
MetaAnthropicLargeOnly ==
    CatwalkProvider("anthropic", "Anthropic", TypeAnthropic, <<"a">>,
                    "claude-opus", "",
                    <<CatwalkModel("claude-opus", "Claude Opus")>>)

\* A descriptor that declares no default model.
MetaOpenAINoDefaults ==
    CatwalkProvider("openai", "OpenAI", TypeOpenAI, <<"o">>, "", "",
                    <<CatwalkModel("gpt-4o", "GPT-4o")>>)

\* embedded.GetAll(): the dataset bundled with the binary.
EmbeddedProviders == <<MetaOpenAI, MetaAnthropic>>

\* What the catwalk endpoint serves when it answers.
RemoteProviders == <<MetaAnthropicLargeOnly, MetaOpenAI>>

\* Lists an older fetch may have left in the cache file.
OldProviders == <<MetaOpenAINoDefaults, MetaAnthropic>>

\* A provider list written by the user for UpdateProviders.
LocalProviders == <<MetaOpenAI>>

\* The cache file: absent, unreadable (os.ReadFile fails), corrupt
\* (json.Unmarshal fails) or a ProvidersCache.
CacheAbsent == [state |-> "absent", UpdatedAt |-> 0, Providers |-> <<>>]

CacheUnreadable == [state |-> "unreadable", UpdatedAt |-> 0, Providers |-> <<>>]

CacheCorrupt == [state |-> "corrupt", UpdatedAt |-> 0, Providers |-> <<>>]

ProvidersCache(updatedAt, providers) ==
    [state |-> "ok", UpdatedAt |-> updatedAt, Providers |-> providers]

\* saveProvidersCache: [file, err].  MkdirAll or WriteFile fails when the
\* directory cannot be made or written, and the file is then left as it was.
saveProvidersCache(file, dirOK, providers, t) ==
    IF dirOK
    THEN [file |-> ProvidersCache(t, providers), err |-> "nil"]
    ELSE [file |-> file, err |-> "write failed"]

\* loadProvidersCache: [cache, err].
loadProvidersCache(file) ==
    IF file.state = "ok"
    THEN [cache |-> file, err |-> "nil"]
    ELSE [cache |-> file, err |-> file.state]

\* The freshness test with <= for <.
CacheFresh_Inclusive(cache, t) == t - cache.UpdatedAt <= cacheMaxAge

\* time.Since(cache.UpdatedAt) < cacheMaxAge
CacheFresh(cache, t) == t - cache.UpdatedAt < cacheMaxAge

\* LoadProviders reading the cache before it tries the network.
LoadProviders_CacheFirst(fetchOK, file, dirOK, t) ==
    IF file.state = "ok" /\ t - file.UpdatedAt < cacheMaxAge
    THEN [providers |-> file.Providers, err |-> "nil", src |-> "cache",
          file |-> file]
    ELSE IF fetchOK
    THEN [providers |-> RemoteProviders, err |-> "nil", src |-> "fetch",
          file |-> saveProvidersCache(file, dirOK, RemoteProviders, t).file]
    ELSE [providers |-> EmbeddedProviders, err |-> "nil", src |-> "embedded",
          file |-> file]

\* LoadProviders returning the error of the cache write.
LoadProviders_CacheErrFatal(fetchOK, file, dirOK, t) ==
    IF fetchOK
    THEN LET w == saveProvidersCache(file, dirOK, RemoteProviders, t)
         IN  IF w.err # "nil"
             THEN [providers |-> <<>>, err |-> w.err, src |-> "fetch",
                   file |-> w.file]
             ELSE [providers |-> RemoteProviders, err |-> "nil", src |-> "fetch",
                   file |-> w.file]
    ELSE IF file.state = "ok" /\ t - file.UpdatedAt < cacheMaxAge
    THEN [providers |-> file.Providers, err |-> "nil", src |-> "cache",
          file |-> file]
    ELSE [providers |-> EmbeddedProviders, err |-> "nil", src |-> "embedded",
          file |-> file]

\* LoadProviders that stores the embedded dataset when it falls back to it.
LoadProviders_SaveFallback(fetchOK, file, dirOK, t) ==
    IF fetchOK
    THEN [providers |-> RemoteProviders, err |-> "nil", src |-> "fetch",
          file |-> saveProvidersCache(file, dirOK, RemoteProviders, t).file]
    ELSE IF file.state = "ok" /\ t - file.UpdatedAt < cacheMaxAge
    THEN [providers |-> file.Providers, err |-> "nil", src |-> "cache",
          file |-> file]
    ELSE [providers |-> EmbeddedProviders, err |-> "nil", src |-> "embedded",
          file |-> saveProvidersCache(file, dirOK, EmbeddedProviders, t).file]

\* LoadProviders with the outcome of client.GetProviders() as fetchOK:
\* [providers, err, src, file], src naming where the list came from and
\* file the cache file the call leaves behind.
LoadProviders(fetchOK, file, dirOK, t) ==
    IF fetchOK
    THEN [providers |-> RemoteProviders, err |-> "nil", src |-> "fetch",
          file |-> saveProvidersCache(file, dirOK, RemoteProviders, t).file]
    ELSE LET c == loadProvidersCache(file)
         IN  IF c.err = "nil" /\ CacheFresh(c.cache, t)
             THEN [providers |-> c.cache.Providers, err |-> "nil",
                   src |-> "cache", file |-> file]
             ELSE [providers |-> EmbeddedProviders, err |-> "nil",
                   src |-> "embedded", file |-> file]

\* The sources UpdateProviders is given: "embedded", an http URL that
\* answers or does not, a local file that is good, missing or not JSON.
UpdateSources == {"embedded", "http-ok", "http-fail", "file-ok", "file-missing",
                  "file-invalid"}

\* UpdateProviders: [err, file].
UpdateProviders(source, file, dirOK, t) ==
    CASE source = "embedded" ->
            saveProvidersCache(file, dirOK, EmbeddedProviders, t)
      [] source = "http-ok" ->
            saveProvidersCache(file, dirOK, RemoteProviders, t)
      [] source = "file-ok" ->
            saveProvidersCache(file, dirOK, LocalProviders, t)
      [] OTHER -> [file |-> file, err |-> source]

----------------------------------------------------------------------------
(* Configuration loader (load.go) *)

\* A configuration file: absent, invalid (unreadable or not JSON) or a
\* JSON document.  options.kind tells a missing "options" key from an
\* explicit null and from an object.
FileAbsent ==
    [state |-> "absent",
     doc |-> [models |-> EmptyMap, providers |-> EmptyMap,
              options |-> [kind |-> "missing", val |-> ZeroOptions]]]

FileInvalid == [FileAbsent EXCEPT !.state = "invalid"]

File(models, providers, options) ==
    [state |-> "ok",
     doc |-> [models |-> models, providers |-> providers, options |-> options]]

\* json.Unmarshal(data, c) followed on a map: keys of the document are set,
\* the other keys of the map are kept.
Overlay(dst, src) ==
    [k \in DOMAIN dst \cup DOMAIN src |-> IF k \in DOMAIN src THEN src[k] ELSE dst[k]]

\* loadFile(path, c): [cfg, err].
loadFile(file, c) ==
    CASE file.state = "absent" -> [cfg |-> c, err |-> "not exist"]
      [] file.state = "invalid" -> [cfg |-> c, err |-> "invalid"]
      [] OTHER ->
            [cfg |-> [c EXCEPT
                        !.Models = Overlay(c.Models, file.doc.models),
                        !.Providers = Overlay(c.Providers, file.doc.providers),
                        !.Options =
                            CASE file.doc.options.kind = "missing" -> c.Options
                              [] file.doc.options.kind = "null" -> Nil
                              [] OTHER -> Some(file.doc.options.val)],
             err |-> "nil"]

\* mergeOptions that appends the source's context paths to the
\* destination's.
mergeOptions_Append(dstOpt, srcOpt) ==
    IF srcOpt = Nil
    THEN dstOpt
    ELSE LET d == IF dstOpt = Nil THEN ZeroOptions ELSE dstOpt[1]
             o == srcOpt[1]
         IN  Some([ContextPaths |-> d.ContextPaths \o o.ContextPaths,
                   DataDir |-> IF o.DataDir # "" THEN o.DataDir ELSE d.DataDir,
                   Debug |-> IF o.Debug THEN TRUE ELSE d.Debug])

\* mergeOptions that leaves a nil destination block nil.
mergeOptions_NoInit(dstOpt, srcOpt) ==
    IF srcOpt = Nil \/ dstOpt = Nil
    THEN dstOpt
    ELSE LET d == dstOpt[1]
             o == srcOpt[1]
         IN  Some([ContextPaths |-> IF Len(o.ContextPaths) > 0
                                    THEN o.ContextPaths ELSE d.ContextPaths,
                   DataDir |-> IF o.DataDir # "" THEN o.DataDir ELSE d.DataDir,
                   Debug |-> IF o.Debug THEN TRUE ELSE d.Debug])

\* The Options part of mergeConfig.
mergeOptions(dstOpt, srcOpt) ==
    IF srcOpt = Nil
    THEN dstOpt
    ELSE LET d == IF dstOpt = Nil THEN ZeroOptions ELSE dstOpt[1]
             o == srcOpt[1]
         IN  Some([ContextPaths |-> IF Len(o.ContextPaths) > 0
                                    THEN o.ContextPaths ELSE d.ContextPaths,
                   DataDir |-> IF o.DataDir # "" THEN o.DataDir ELSE d.DataDir,
                   Debug |-> IF o.Debug THEN TRUE ELSE d.Debug])

\* mergeConfig in which an entry of dst is kept when src has the key too.
mergeConfig_DstWins(dst, src) ==
    [dst EXCEPT !.Models = Overlay(src.Models, dst.Models),
                !.Providers = Overlay(src.Providers, dst.Providers),
                !.Options = dst.Options]

\* mergeConfig(dst, src): the dst it leaves.
mergeConfig(dst, src) ==
    [dst EXCEPT !.Models = Overlay(dst.Models, src.Models),
                !.Providers = Overlay(dst.Providers, src.Providers),
                !.Options = mergeOptions(dst.Options, src.Options)]

\* filepath.Join(xdg.DataHome, appName)
DefaultDataDir == "xdg-data/matrix"

\* applyDefaults(c)
applyDefaults(c) ==
    LET o == IF c.Options = Nil THEN ZeroOptions ELSE c.Options[1]
    IN  [c EXCEPT !.Options =
            Some([o EXCEPT !.DataDir = IF o.DataDir = "" THEN DefaultDataDir
                                       ELSE o.DataDir])]

\* The model merge that appends every metadata model.
RECURSIVE appendMissing_All(_, _, _, _)
appendMissing_All(models, existingIDs, metaModels, j) ==
    IF j > Len(metaModels)
    THEN models
    ELSE appendMissing_All(Append(models, metaModels[j]),
                           existingIDs, metaModels, j + 1)

\* The model merge of configureProviders: the user's models, then each
\* metadata model whose id is not among the user's, from position j.
RECURSIVE appendMissing(_, _, _, _)
appendMissing(models, existingIDs, metaModels, j) ==
    IF j > Len(metaModels)
    THEN models
    ELSE appendMissing(IF metaModels[j].ID \in existingIDs
                       THEN models
                       ELSE Append(models, metaModels[j]),
                       existingIDs, metaModels, j + 1)

\* The resolver keeps the entry with whatever Resolve returned: the removal
\* of load.go:169-173 left out.
apiKeyUnresolved_Kept(u, key) == FALSE

\* Whether configureProviders removes the entry u: its key is set and
\* resolver.Resolve returned an error for it.
apiKeyUnresolved(u, key) == u.APIKey # EmptyStr /\ Len(key.errs) > 0

\* One iteration of configureProviders' loop, for the known provider p.
configureOne(c, env, p) ==
    IF p.ID \notin DOMAIN c.Providers
    THEN c
    ELSE LET u == c.Providers[p.ID]
             key == Resolve(env, u.APIKey)
             url == Resolve(env, u.BaseURL)
         IN  IF apiKeyUnresolved(u, key)
             THEN [c EXCEPT !.Providers = Delete(c.Providers, p.ID)]
             ELSE [c EXCEPT !.Providers[p.ID] =
                    [u EXCEPT
                      !.APIKey = IF u.APIKey # EmptyStr THEN key.val ELSE u.APIKey,
                      !.BaseURL = IF u.BaseURL # EmptyStr
                                  THEN (IF Len(url.errs) = 0 THEN url.val
                                        ELSE u.BaseURL)
                                  ELSE p.APIEndpoint,
                      !.ID = p.ID,
                      !.Name = IF u.Name = "" THEN p.Name ELSE u.Name,
                      !.Type = IF u.Type = "" THEN p.Type ELSE u.Type,
                      !.Models =
                          IF Len(u.Models) = 0
                          THEN p.Models
                          ELSE appendMissing(u.Models,
                                   {u.Models[j].ID : j \in 1..Len(u.Models)},
                                   p.Models, 1),
                      !.ExtraHeaders = IF u.ExtraHeaders = Nil
                                       THEN Some(EmptyMap) ELSE u.ExtraHeaders]]

\* configureProviders(c, resolver), from the i-th known provider on.
RECURSIVE configureFrom(_, _, _)
configureFrom(c, env, i) ==
    IF i > Len(c.knownProviders)
    THEN c
    ELSE configureFrom(configureOne(c, env, c.knownProviders[i]), env, i + 1)

configureProviders(c, env) == configureFrom(c, env, 1)

\* validateModels without its test of the Disable flag.
validateModels_NoDisableCheck(c) ==
    {[tier |-> t, what |-> "not configured"] :
        t \in {t \in DOMAIN c.Models : c.Models[t].Provider \notin DOMAIN c.Providers}}

\* validateModels(c): the errors it may return.  The tiers are visited
\* in map order, so any offending tier may be the one reported; the empty
\* set stands for a nil error.
validateModels(c) ==
    {[tier |-> t, what |-> "not configured"] :
        t \in {t \in DOMAIN c.Models : c.Models[t].Provider \notin DOMAIN c.Providers}}
    \cup
    {[tier |-> t, what |-> "disabled"] :
        t \in {t \in DOMAIN c.Models :
                  /\ c.Models[t].Provider \in DOMAIN c.Providers
                  /\ c.Providers[c.Models[t].Provider].Disable}}

\* The tiers configureDefaultModels sets from the known provider p.
defaultsOf(p) ==
    LET withLarge == IF p.DefaultLargeModelID # ""
                     THEN Put(EmptyMap, SelectedModelTypeLarge,
                              SelectedModel(p.DefaultLargeModelID, p.ID, FALSE))
                     ELSE EmptyMap
    IN  IF p.DefaultSmallModelID # ""
        THEN Put(withLarge, SelectedModelTypeSmall,
                 SelectedModel(p.DefaultSmallModelID, p.ID, FALSE))
        ELSE withLarge

\* Whether configureDefaultModels' loop considers the known provider p.
qualifies(c, p) ==
    /\ p.ID \in DOMAIN c.Providers
    /\ ~c.Providers[p.ID].Disable
    /\ c.Providers[p.ID].APIKey # EmptyStr

\* The loop without its break: every considered provider sets its tiers.
RECURSIVE selectDefaults_NoBreak(_, _)
selectDefaults_NoBreak(c, i) ==
    IF i > Len(c.knownProviders)
    THEN c.Models
    ELSE LET p == c.knownProviders[i]
         IN  IF qualifies(c, p)
             THEN selectDefaults_NoBreak(
                      [c EXCEPT !.Models = Overlay(c.Models, defaultsOf(p))], i + 1)
             ELSE selectDefaults_NoBreak(c, i + 1)

\* The loop of configureDefaultModels, from the i-th known provider on:
\* the Models it leaves.
RECURSIVE selectDefaults(_, _)
selectDefaults(c, i) ==
    IF i > Len(c.knownProviders)
    THEN c.Models
    ELSE LET p == c.knownProviders[i]
         IN  IF qualifies(c, p) /\ DOMAIN defaultsOf(p) # {}
             THEN Overlay(c.Models, defaultsOf(p))
             ELSE selectDefaults(c, i + 1)

NoValidProviders == [tier |-> "", what |-> "no providers configured with valid API keys"]

\* configureDefaultModels that accepts a Config left without tiers.
configureDefaultModels_NoCheck(c) ==
    IF Cardinality(DOMAIN c.Models) > 0
    THEN [cfg |-> c, errs |-> validateModels(c)]
    ELSE [cfg |-> [c EXCEPT !.Models = selectDefaults(c, 1)], errs |-> {}]

\* configureDefaultModels(c): [cfg, errs], errs as for validateModels.
configureDefaultModels(c) ==
    IF Cardinality(DOMAIN c.Models) > 0
    THEN [cfg |-> c, errs |-> validateModels(c)]
    ELSE LET ms == selectDefaults(c, 1)
         IN  [cfg |-> [c EXCEPT !.Models = ms],
              errs |-> IF Cardinality(DOMAIN ms) = 0 THEN {NoValidProviders} ELSE {}]

NoError == [tier |-> "", what |-> "nil"]

\* The steps Load and LoadFromFile share once the files are read:
\* applyDefaults, LoadProviders, configureProviders, configureDefaultModels.
\* [cfg, errs, prov]: errs the errors the call may return ({NoError} when
\* it succeeds), prov the LoadProviders result.
finishLoad(c0, env, fetchOK, file, dirOK, t) ==
    LET prov == LoadProviders(fetchOK, file, dirOK, t)
        c1 == [applyDefaults(c0) EXCEPT !.knownProviders = prov.providers]
        r == configureDefaultModels(configureProviders(c1, env))
    IN  [cfg |-> r.cfg, errs |-> IF r.errs = {} THEN {NoError} ELSE r.errs,
         prov |-> Some(prov)]

LoadFailed(c, what, tier) ==
    [cfg |-> c, errs |-> {[tier |-> tier, what |-> what]}, prov |-> Nil]

\* Load()
Load(env, gfile, pfile, fetchOK, file, dirOK, t) ==
    LET g == loadFile(gfile, NewConfig)
        p == loadFile(pfile, NewConfig)
    IN  IF g.err \notin {"nil", "not exist"}
        THEN LoadFailed(g.cfg, "loading global config", "")
        ELSE IF pfile.state = "absent"
        THEN finishLoad(g.cfg, env, fetchOK, file, dirOK, t)
        ELSE IF p.err # "nil"
        THEN LoadFailed(g.cfg, "loading project config", "")
        ELSE finishLoad(mergeConfig(g.cfg, p.cfg), env, fetchOK, file, dirOK, t)

\* LoadFromFile(path)
LoadFromFile(env, f, fetchOK, file, dirOK, t) ==
    LET l == loadFile(f, NewConfig)
    IN  IF l.err # "nil"
        THEN LoadFailed(l.cfg, l.err, "")
        ELSE finishLoad(l.cfg, env, fetchOK, file, dirOK, t)

----------------------------------------------------------------------------
(* Configuration persistence (save.go) *)

\* SaveProviderConfig
SaveProviderConfig(apiKey, oauth) == [APIKey |-> apiKey, OAuthToken |-> oauth]

\* The SaveConfig of SaveToFile keeping every provider.
SaveConfigOf_All(c) ==
    [Models |-> c.Models,
     Providers |->
        [id \in DOMAIN c.Providers
           |-> SaveProviderConfig(c.Providers[id].APIKey, c.Providers[id].OAuthToken)],
     Options |-> c.Options]

\* The SaveConfig that SaveToFile marshals.
SaveConfigOf(c) ==
    [Models |-> c.Models,
     Providers |->
        [id \in {id \in DOMAIN c.Providers :
                    \/ c.Providers[id].APIKey # EmptyStr
                    \/ c.Providers[id].OAuthToken # Nil}
           |-> SaveProviderConfig(c.Providers[id].APIKey, c.Providers[id].OAuthToken)],
     Options |-> c.Options]

\* The file SaveToFile leaves at path: written whole when the directory
\* can be made and the file written, untouched otherwise.
SaveToFile(c, old, writable) ==
    IF writable
    THEN [file |-> [state |-> "ok", doc |-> SaveConfigOf(c)], err |-> "nil"]
    ELSE [file |-> old, err |-> "write failed"]

----------------------------------------------------------------------------
(* Provider/model builder (provider.go) *)

\* The token buildProvider adds to the anthropic-beta header.
InterleavedThinking == "interleaved-thinking-2025-05-14"

\* A header value is the sequence of its comma-separated fields, so that
\* v + "," + token is Append(v, token); the empty value is <<"">>.
CommaJoin(v, token) == Append(v, token)

\* The literal "Bearer " that marks an OAuth credential.
BearerPrefix == <<"B", "e", "a", "r", "e", "r", " ">>

\* strings.HasPrefix(s, prefix)
HasPrefix(s, prefix) ==
    Len(s) >= Len(prefix) /\ SubSeq(s, 1, Len(prefix)) = prefix

\* Model{}
ZeroModel ==
    [Model |-> Nil, CatwalkCfg |-> ZeroCatwalkModel,
     ModelCfg |-> SelectedModel("", "", FALSE)]

\* NewBuilder(c).  made lists the provider clients constructed so far, in
\* order, and cache maps a provider id to the position of its client in
\* made; calls counts the buildModel calls, which number the language
\* model handles.
NewBuilder(c) ==
    [cfg |-> c, cache |-> EmptyMap, made |-> <<>>, calls |-> 0,
     debug |-> (c.Options # Nil /\ c.Options[1].Debug)]

\* A constructed fantasy.Provider: the options it was given.  An option
\* that was not passed is Nil.
Client(kind, apiKey, headers, baseURL) ==
    [kind |-> kind,
     apiKey |-> apiKey,
     headers |-> IF Cardinality(DOMAIN headers) > 0 THEN Some(headers) ELSE Nil,
     baseURL |-> IF baseURL # EmptyStr THEN Some(baseURL) ELSE Nil]

\* buildOpenAIProvider: [client, err, headers]; newOK is whether openai.New
\* succeeds, headers is the map it was given, as it leaves it.
buildOpenAIProvider(baseURL, apiKey, headers, newOK) ==
    IF newOK
    THEN [client |-> Some(Client("openai",
                                 IF apiKey # EmptyStr THEN Some(apiKey) ELSE Nil,
                                 headers, baseURL)),
          err |-> "nil", headers |-> headers]
    ELSE [client |-> Nil, err |-> "openai.New failed", headers |-> headers]

\* buildAnthropicProvider: [client, err, headers]; newOK is whether
\* anthropic.New succeeds, headers is the map it was given, as it leaves it.
buildAnthropicProvider(baseURL, apiKey, headers, newOK) ==
    LET bearer == HasPrefix(apiKey, BearerPrefix)
        hs == IF bearer THEN Put(headers, "Authorization", apiKey) ELSE headers
    IN  IF newOK
        THEN [client |-> Some(Client("anthropic",
                                     IF ~bearer /\ apiKey # EmptyStr
                                     THEN Some(apiKey) ELSE Nil,
                                     hs, baseURL)),
              err |-> "nil", headers |-> hs]
        ELSE [client |-> Nil, err |-> "anthropic.New failed", headers |-> hs]

\* headers := ExtraHeaders with no copy taken: the stored map itself,
\* unless it is nil.
CloneHeaders_Alias(providerCfg) ==
    [map |-> IF providerCfg.ExtraHeaders = Nil
             THEN EmptyMap ELSE providerCfg.ExtraHeaders[1],
     alias |-> providerCfg.ExtraHeaders # Nil]

\* headers := maps.Clone(ExtraHeaders), or a new map when that is nil: the
\* content of the map, and whether it is the map object the ProviderConfig
\* holds, so that a write into it is a write into the Config.
CloneHeaders(providerCfg) ==
    [map |-> IF providerCfg.ExtraHeaders = Nil
             THEN EmptyMap ELSE providerCfg.ExtraHeaders[1],
     alias |-> FALSE]

\* The headers buildProvider passes on: a copy of ExtraHeaders, with the
\* thinking token for an Anthropic provider whose model has Think set.
buildHeaders(providerCfg, modelCfg) ==
    LET headers == CloneHeaders(providerCfg).map
    IN  IF providerCfg.Type = TypeAnthropic /\ modelCfg.Think
        THEN IF "anthropic-beta" \in DOMAIN headers
             THEN Put(headers, "anthropic-beta",
                      CommaJoin(headers["anthropic-beta"], InterleavedThinking))
             ELSE Put(headers, "anthropic-beta", <<InterleavedThinking>>)
        ELSE headers

\* The type switch of buildProvider, on the headers it has prepared.
dispatchProvider(providerCfg, headers, newOK) ==
    CASE providerCfg.Type \in {TypeOpenAI, TypeOpenAICompat} ->
            buildOpenAIProvider(providerCfg.BaseURL, providerCfg.APIKey,
                                headers, newOK)
      [] providerCfg.Type = TypeAnthropic ->
            buildAnthropicProvider(providerCfg.BaseURL, providerCfg.APIKey,
                                   headers, newOK)
      [] OTHER ->
            [client |-> Nil,
             err |-> "unsupported provider type: " \o providerCfg.Type,
             headers |-> headers]

\* What buildProvider returns and leaves, r being the result of its type
\* switch: the ExtraHeaders of the ProviderConfig are what they were,
\* unless the map written to is the stored one.
providerBuilt(providerCfg, r) ==
    [client |-> r.client, err |-> r.err,
     stored |-> IF CloneHeaders(providerCfg).alias
                THEN Some(r.headers) ELSE providerCfg.ExtraHeaders]

\* Builder.buildProvider: [client, err, stored], stored being the
\* ExtraHeaders of the ProviderConfig after the call.
buildProvider(providerCfg, modelCfg, newOK) ==
    providerBuilt(providerCfg,
                  dispatchProvider(providerCfg,
                                   buildHeaders(providerCfg, modelCfg), newOK))

\* The end of getOrBuildProvider without the store into the cache.
cacheProvider_NoStore(b, providerCfg, r) ==
    IF r.err # "nil"
    THEN [b |-> b, p |-> 0, err |-> r.err, stored |-> r.stored]
    ELSE [b |-> [b EXCEPT
                   !.made = Append(b.made,
                               [id |-> providerCfg.ID, client |-> r.client[1]])],
          p |-> Len(b.made) + 1, err |-> "nil", stored |-> r.stored]

\* The end of getOrBuildProvider, r being what buildProvider returned: the
\* error, or the new client stored under the provider's ID.
cacheProvider(b, providerCfg, r) ==
    IF r.err # "nil"
    THEN [b |-> b, p |-> 0, err |-> r.err, stored |-> r.stored]
    ELSE [b |-> [b EXCEPT
                   !.made = Append(b.made,
                               [id |-> providerCfg.ID, client |-> r.client[1]]),
                   !.cache = Put(b.cache, providerCfg.ID, Len(b.made) + 1)],
          p |-> Len(b.made) + 1, err |-> "nil", stored |-> r.stored]

\* getOrBuildProvider without the store into the cache.
getOrBuildProvider_NoStore(b, providerCfg, modelCfg, newOK) ==
    IF providerCfg.ID \in DOMAIN b.cache
    THEN [b |-> b, p |-> b.cache[providerCfg.ID], err |-> "nil",
          stored |-> providerCfg.ExtraHeaders]
    ELSE cacheProvider_NoStore(b, providerCfg,
                               buildProvider(providerCfg, modelCfg, newOK))

\* Builder.getOrBuildProvider: [b, p, err, stored], b the builder it leaves,
\* p the provider it returns, as its position in made, and stored the
\* ExtraHeaders of the ProviderConfig after the call.
getOrBuildProvider(b, providerCfg, modelCfg, newOK) ==
    IF providerCfg.ID \in DOMAIN b.cache
    THEN [b |-> b, p |-> b.cache[providerCfg.ID], err |-> "nil",
          stored |-> providerCfg.ExtraHeaders]
    ELSE cacheProvider(b, providerCfg,
                       buildProvider(providerCfg, modelCfg, newOK))

\* What the calls into the fantasy library may do during one buildModel.
ExtOutcomes == {"ok", "New fails", "LanguageModel fails"}

\* The builder getOrBuildProvider leaves, with what it left of the
\* ExtraHeaders of the provider entry.
builderAfter(g, modelCfg) ==
    [g.b EXCEPT !.cfg.Providers[modelCfg.Provider].ExtraHeaders = g.stored]

\* buildModel from the return of getOrBuildProvider on: gb is the builder
\* then, p the provider and err the error returned, m the metadata
\* GetModel finds.
modelFrom(gb, p, err, modelCfg, ext, m) ==
    IF err # "nil"
    THEN [b |-> gb, model |-> ZeroModel, err |-> err]
    ELSE IF ext = "LanguageModel fails"
    THEN [b |-> gb, model |-> ZeroModel, err |-> "getting language model"]
    ELSE [b |-> gb,
          model |-> [Model |-> Some([provider |-> p, id |-> modelCfg.Model,
                                     call |-> gb.calls]),
                     CatwalkCfg |-> IF m # Nil THEN m[1] ELSE ZeroCatwalkModel,
                     ModelCfg |-> modelCfg],
          err |-> "nil"]

\* buildModel once the provider entry is found, g being the return of
\* getOrBuildProvider.
modelWith(g, modelCfg, ext, m) ==
    modelFrom(builderAfter(g, modelCfg), g.p, g.err, modelCfg, ext, m)

\* buildModel on a builder whose calls are counted already.
buildCounted(b, modelCfg, ext) ==
    IF modelCfg.Provider \notin DOMAIN b.cfg.Providers
    THEN [b |-> b, model |-> ZeroModel, err |-> "provider not configured"]
    ELSE modelWith(getOrBuildProvider(b, b.cfg.Providers[modelCfg.Provider],
                                      modelCfg, ext # "New fails"),
                   modelCfg, ext,
                   GetModel(b.cfg, modelCfg.Provider, modelCfg.Model))

\* Builder.buildModel: [b, model, err].
buildModel(b0, modelCfg, ext) ==
    buildCounted([b0 EXCEPT !.calls = b0.calls + 1], modelCfg, ext)

BuildFailed(b, stage, err) ==
    [b |-> b, large |-> ZeroModel, small |-> ZeroModel,
     err |-> [stage |-> stage, what |-> err]]

NoBuildError == [stage |-> "", what |-> "nil"]

\* The return of BuildModels, l and sm being what buildModel returned for
\* the large and for the small tier.
bothBuilt(l, sm) ==
    IF sm.err # "nil"
    THEN BuildFailed(sm.b, "small", sm.err)
    ELSE [b |-> sm.b, large |-> l.model, small |-> sm.model, err |-> NoBuildError]

\* BuildModels after the large tier, building the missing small tier again
\* from the large tier's configuration.
smallAfter_Rebuild(c, ext, l) ==
    IF l.err # "nil"
    THEN BuildFailed(l.b, "large", l.err)
    ELSE bothBuilt(l, buildModel(l.b,
                                 IF SelectedModelTypeSmall \in DOMAIN c.Models
                                 THEN c.Models[SelectedModelTypeSmall]
                                 ELSE c.Models[SelectedModelTypeLarge],
                                 ext.small))

\* BuildModels after the large tier, l being what buildModel returned for
\* it and c the Config.
smallAfter(c, ext, l) ==
    IF l.err # "nil"
    THEN BuildFailed(l.b, "large", l.err)
    ELSE IF SelectedModelTypeSmall \notin DOMAIN c.Models
    THEN [b |-> l.b, large |-> l.model, small |-> l.model, err |-> NoBuildError]
    ELSE bothBuilt(l, buildModel(l.b, c.Models[SelectedModelTypeSmall], ext.small))

\* BuildModels that builds the missing small tier again from the large
\* tier's configuration.
BuildModels_Rebuild(b, ext) ==
    IF SelectedModelTypeLarge \notin DOMAIN b.cfg.Models
    THEN BuildFailed(b, "large", "large model not configured")
    ELSE smallAfter_Rebuild(b.cfg, ext,
             buildModel(b, b.cfg.Models[SelectedModelTypeLarge], ext.large))

\* Builder.BuildModels: [b, large, small, err].  ext gives, for each tier,
\* what the library calls of its build do.
BuildModels(b, ext) ==
    IF SelectedModelTypeLarge \notin DOMAIN b.cfg.Models
    THEN BuildFailed(b, "large", "large model not configured")
    ELSE smallAfter(b.cfg, ext,
             buildModel(b, b.cfg.Models[SelectedModelTypeLarge], ext.large))

NoBuilder == NewBuilder(NewConfig)

\* The last BuildModels call: whether one was made, what it returned and
\* how many buildModel calls it made.
NoBuilt ==
    [called |-> FALSE, large |-> ZeroModel, small |-> ZeroModel,
     err |-> NoBuildError, builds |-> 0]

----------------------------------------------------------------------------
(* The inputs of a session *)

\* os.Environ(): A is set, E is set to the empty string, U is not set.
Environ == (<<"A">> :> <<"s">>) @@ (<<"E">> :> EmptyStr)

KeyNone == EmptyStr

KeyLiteral == <<"k">>

KeyRefA == <<"$", "A">>

KeyRefU == <<"$", "U">>

KeyMixedU == <<"k", "-", "$", "{", "U", "}">>

KeyRefE == <<"$", "E">>

Keys == {KeyNone, KeyLiteral, KeyRefA, KeyRefU, KeyMixedU, KeyRefE}

\* An oauth.Token as SaveWizardResultWithOAuth stores it.
WizardToken == [AccessToken |-> <<"s", "k">>, RefreshToken |-> <<"r">>]

\* The entries a file may hold for "openai".
OpenAIEntries ==
    {ProviderConfig(k, FALSE, Nil) : k \in Keys}
    \cup {ProviderConfig(KeyLiteral, TRUE, Nil)}

\* The entries a file may hold for "anthropic": with a key, as the
\* wizard's OAuth path writes it, or with the token alone.
AnthropicEntries ==
    {ProviderConfig(k, FALSE, Nil) : k \in {KeyNone, KeyLiteral, KeyRefU}}
    \cup {ProviderConfig(KeyLiteral, TRUE, Nil),
          ProviderConfig(WizardToken.AccessToken, FALSE, Some(WizardToken)),
          ProviderConfig(KeyNone, FALSE, Some(WizardToken))}

\* The entries a file may hold for "local", a provider the metadata does
\* not list: an OpenAI-compatible endpoint, with or without a key.
LocalEntries ==
    {[ProviderConfig(k, FALSE, Nil) EXCEPT !.Type = TypeOpenAICompat,
                                           !.BaseURL = <<"l">>] :
        k \in {KeyNone, KeyRefA}}

\* The maps with no key or with the one key id bound to one of entries.
OptMaps(id, entries) == {EmptyMap} \cup {Put(EmptyMap, id, e) : e \in entries}

ProviderMaps ==
    {Overlay(Overlay(a, b), c) :
        a \in OptMaps("openai", OpenAIEntries),
        b \in OptMaps("anthropic", AnthropicEntries),
        c \in OptMaps("local", LocalEntries)}

TierChoices(tier, ids) ==
    OptMaps(tier, {SelectedModel("gpt-4o", id, FALSE) : id \in ids})

TierMaps ==
    {Overlay(a, b) :
        a \in TierChoices(SelectedModelTypeLarge, {"openai", "anthropic", "local"}),
        b \in TierChoices(SelectedModelTypeSmall, {"openai", "anthropic"})}

MissingOptions == [kind |-> "missing", val |-> ZeroOptions]

\* The global file a user may have: one literal key and debug switched on.
GlobalDoc ==
    File(EmptyMap,
         Put(EmptyMap, "openai", ProviderConfig(KeyLiteral, FALSE, Nil)),
         [kind |-> "object", val |-> [ZeroOptions EXCEPT !.Debug = TRUE]])

GlobalFiles == {FileAbsent, FileInvalid, GlobalDoc}

ProjectFiles ==
    {FileAbsent, FileInvalid}
    \cup {File(m, p, MissingOptions) : m \in TierMaps, p \in ProviderMaps}

\* What the session keeps of a LoadProviders call: its result r, and what
\* the call met: the fetch outcome, the cache file before it and the time.
ProvResult(r, fetchOK, before, t) ==
    [op |-> "LoadProviders", providers |-> r.providers, err |-> r.err,
     src |-> r.src, fetchOK |-> fetchOK, before |-> before, at |-> t]

NoProvResult ==
    [op |-> "none", providers |-> <<>>, err |-> "nil", src |-> "none",
     fetchOK |-> FALSE, before |-> CacheAbsent, at |-> 0]

NoSavedFile == [state |-> "absent", doc |-> SaveConfigOf(NewConfig)]

\* No mergeConfig call yet.  called counts the calls, dst0 is dst before
\* the first one, dst is dst as the last one left it.
NoMerge ==
    [called |-> 0, dst0 |-> NewConfig, src |-> NewConfig, dst |-> NewConfig]

\* No Resolver yet.  first keeps the first Resolve call made on the
\* Resolver.
NoResolver == [made |-> FALSE, env |-> EmptyMap, first |-> Nil]

NoResolved ==
    [called |-> FALSE, value |-> EmptyStr, val |-> EmptyStr, errs |-> <<>>]


----------------------------------------------------------------------------
(* Setup wizard: its messages and sub-components (tui/components/wizard) *)

\* Step
StepProvider == "StepProvider"

StepAuthMethod == "StepAuthMethod"

StepOAuth == "StepOAuth"

StepAPIKey == "StepAPIKey"

StepLargeModel == "StepLargeModel"

StepSmallModel == "StepSmallModel"

StepComplete == "StepComplete"

\* AuthMethod
AuthMethodOAuth2 == "AuthMethodOAuth2"

AuthMethodAPIKey == "AuthMethodAPIKey"

\* OAuthState
OAuthStateURL == "OAuthStateURL"

OAuthStateCode == "OAuthStateCode"

\* OAuthValidationState
OAuthValidationStateNone == "OAuthValidationStateNone"

OAuthValidationStateVerifying == "OAuthValidationStateVerifying"

OAuthValidationStateValid == "OAuthValidationStateValid"

OAuthValidationStateError == "OAuthValidationStateError"

\* catwalk.InferenceProviderAnthropic
InferenceProviderAnthropic == "anthropic"

\* The keys of tea.KeyMsg that the wizard tells apart.
keyEnter == "enter"

keyEsc == "esc"

keyUp == "up"

keyDown == "down"

keyTab == "tab"

\* The messages.  flow in OAuthValidationCompletedMsg is not a field of the
\* Go struct: it records which OAuth2Flow's validateCode produced it.
KeyMsg(k) == [type |-> "KeyMsg", key |-> k]

ProviderSelectedMsg(p) == [type |-> "ProviderSelectedMsg", Provider |-> p]

AuthMethodSelectedMsg(m) == [type |-> "AuthMethodSelectedMsg", Method |-> m]

APIKeyEnteredMsg(k) == [type |-> "APIKeyEnteredMsg", APIKey |-> k]

ModelSelectedMsg(m, tier) ==
    [type |-> "ModelSelectedMsg", Model |-> m, Tier |-> tier]

OAuthValidationCompletedMsg(state, tok, flow) ==
    [type |-> "OAuthValidationCompletedMsg", State |-> state, Token |-> tok,
     flow |-> flow]

OAuthCompleteMsg(tok) == [type |-> "OAuthCompleteMsg", Token |-> tok]

CompleteMsg(providerID, apiKey, large, small) ==
    [type |-> "CompleteMsg", ProviderID |-> providerID, APIKey |-> apiKey,
     LargeModelID |-> large, SmallModelID |-> small]

InfoMsg(text) == [type |-> "InfoMsg", Msg |-> text]

\* The commands that do not return at once: o.validateCode of the flow
\* with that identity, and the closure saveConfig returns.
validateCodeCmd(flow) == [type |-> "validateCode", flow |-> flow]

saveConfigCmd == [type |-> "saveConfig"]

\* What a handler returns: the component and the commands of tea.Batch.
Ret(m, cmds) == [m |-> m, cmds |-> cmds]

\* NewOAuth2Flow().  id tells one *OAuth2Flow from another.
NewOAuth2Flow(id) ==
    [id |-> id, state |-> OAuthStateURL,
     validationState |-> OAuthValidationStateNone, token |-> Nil]

\* OAuth2Flow.Update without the reassignment on a validation message.
OAuth2FlowUpdate_Ignore(o, msg) == o

\* OAuth2Flow.Update: the fields it assigns.  The spinner and the code
\* input are the library's.
OAuth2FlowUpdate(o, msg) ==
    IF msg.type = "OAuthValidationCompletedMsg"
    THEN [o EXCEPT !.validationState = msg.State, !.token = msg.Token]
    ELSE o

\* OAuth2Flow.HandleConfirm that validates the code from the URL state on.
HandleConfirm_NoURLStep(o) ==
    CASE o.validationState \in {OAuthValidationStateNone, OAuthValidationStateError} ->
            Ret([o EXCEPT !.validationState = OAuthValidationStateVerifying],
                {validateCodeCmd(o.id)})
      [] o.validationState = OAuthValidationStateValid ->
            Ret(o, {OAuthCompleteMsg(o.token)})
      [] OTHER -> Ret(o, {})

\* OAuth2Flow.HandleConfirm
HandleConfirm(o) ==
    CASE o.state = OAuthStateURL ->
            Ret([o EXCEPT !.state = OAuthStateCode], {})
      [] o.validationState \in {OAuthValidationStateNone, OAuthValidationStateError} ->
            Ret([o EXCEPT !.validationState = OAuthValidationStateVerifying],
                {validateCodeCmd(o.id)})
      [] o.validationState = OAuthValidationStateValid ->
            Ret(o, {OAuthCompleteMsg(o.token)})
      [] OTHER -> Ret(o, {})

\* The outcomes of claude.ExchangeToken: an error, no error and no token,
\* or a token.
ExchangeFailed == [err |-> TRUE, token |-> Nil]

ExchangeEmpty == [err |-> FALSE, token |-> Nil]

ExchangeOK(tok) == [err |-> FALSE, token |-> Some(tok)]

\* OAuth2Flow.validateCode that looks at the error only.
validateCode_ErrOnly(flow, x) ==
    IF x.err
    THEN OAuthValidationCompletedMsg(OAuthValidationStateError, Nil, flow)
    ELSE OAuthValidationCompletedMsg(OAuthValidationStateValid, x.token, flow)

\* OAuth2Flow.validateCode, x being what ExchangeToken returned.
validateCode(flow, x) ==
    IF x.err \/ x.token = Nil
    THEN OAuthValidationCompletedMsg(OAuthValidationStateError, Nil, flow)
    ELSE OAuthValidationCompletedMsg(OAuthValidationStateValid, x.token, flow)

\* NewAuthMethodChooser
NewAuthMethodChooser == [selected |-> AuthMethodOAuth2]

\* AuthMethodChooser.toggleChoice
toggleChoice(a) ==
    [a EXCEPT !.selected = IF a.selected = AuthMethodOAuth2
                           THEN AuthMethodAPIKey
                           ELSE AuthMethodOAuth2]

\* AuthMethodChooser.Update
AuthMethodChooserUpdate(a, msg) ==
    CASE msg.type # "KeyMsg" -> Ret(a, {})
      [] msg.key = keyTab -> Ret(toggleChoice(a), {})
      [] msg.key = keyEnter -> Ret(a, {AuthMethodSelectedMsg(a.selected)})
      [] OTHER -> Ret(a, {})

\* strings.TrimSpace
RECURSIVE TrimLeft(_)
TrimLeft(s) == IF s # EmptyStr /\ Head(s) = " " THEN TrimLeft(Tail(s)) ELSE s

RECURSIVE TrimRight(_)
TrimRight(s) ==
    IF s # EmptyStr /\ s[Len(s)] = " "
    THEN TrimRight(SubSeq(s, 1, Len(s) - 1))
    ELSE s

TrimSpace(s) == TrimRight(TrimLeft(s))

\* NewAPIKeyInput: the text typed so far.
NewAPIKeyInput == [value |-> EmptyStr]

\* APIKeyInput.Reset
Reset(a) == [a EXCEPT !.value = EmptyStr]

\* APIKeyInput.Update.  A key that is a character is typed into the input.
APIKeyInputUpdate(a, msg) ==
    CASE msg.type # "KeyMsg" -> Ret(a, {})
      [] msg.key = keyEnter /\ TrimSpace(a.value) # EmptyStr ->
            Ret(a, {APIKeyEnteredMsg(TrimSpace(a.value))})
      [] msg.key \in {keyEnter, keyTab, keyUp, keyDown} -> Ret(a, {})
      [] OTHER -> Ret([a EXCEPT !.value = Append(a.value, msg.key)], {})

\* NewProviderList.  cursor counts from 1.
NewProviderList(providers) == [providers |-> providers, cursor |-> 1]

\* The move of a list's cursor on a key, n being the length of the list.
moveCursor(cursor, n, key) ==
    CASE key = keyUp /\ cursor > 1 -> cursor - 1
      [] key = keyDown /\ cursor < n -> cursor + 1
      [] OTHER -> cursor

\* ProviderList.Update
ProviderListUpdate(p, msg) ==
    CASE msg.type # "KeyMsg" -> Ret(p, {})
      [] msg.key = keyEnter /\ Len(p.providers) > 0 ->
            Ret(p, {ProviderSelectedMsg(p.providers[p.cursor])})
      [] OTHER ->
            Ret([p EXCEPT !.cursor = moveCursor(p.cursor, Len(p.providers), msg.key)],
                {})

\* NewModelList
NewModelList(models, tier) == [models |-> models, cursor |-> 1, tier |-> tier]

\* ModelList.SetCursorToModel
SetCursorToModel(m, modelID) ==
    LET hits == {i \in 1..Len(m.models) : m.models[i].ID = modelID}
    IN  IF hits = {}
        THEN m
        ELSE [m EXCEPT !.cursor = CHOOSE i \in hits : \A j \in hits : i <= j]

\* ModelList.Update
ModelListUpdate(m, msg) ==
    CASE msg.type # "KeyMsg" -> Ret(m, {})
      [] msg.key = keyEnter /\ Len(m.models) > 0 ->
            Ret(m, {ModelSelectedMsg(m.models[m.cursor], m.tier)})
      [] OTHER ->
            Ret([m EXCEPT !.cursor = moveCursor(m.cursor, Len(m.models), msg.key)],
                {})

\* NewWizard(providers).  A nil component is Nil, the zero AuthMethod is
\* AuthMethodOAuth2.  panicked tells that a nil component was dereferenced.
NewWizard(providers) ==
    [step |-> StepProvider, providers |-> providers,
     providerList |-> Some(NewProviderList(providers)),
     authMethodChoice |-> Nil, oauthFlow |-> Nil, apiKeyInput |-> Nil,
     largeModel |-> Nil, smallModel |-> Nil,
     selectedProvider |-> Nil, selectedLarge |-> Nil, selectedSmall |-> Nil,
     oauthToken |-> Nil, apiKey |-> EmptyStr, authMethod |-> AuthMethodOAuth2,
     panicked |-> FALSE]

\* The sub-component that Update and View of the step use.
stepComponent(w) ==
    CASE w.step = StepProvider -> w.providerList
      [] w.step = StepAuthMethod -> w.authMethodChoice
      [] w.step = StepOAuth -> w.oauthFlow
      [] w.step = StepAPIKey -> w.apiKeyInput
      [] w.step = StepLargeModel -> w.largeModel
      [] w.step = StepSmallModel -> w.smallModel
      [] OTHER -> Some(w.step)

\* Wizard.View: it renders the component of the step, and a nil one makes
\* it panic.
View(w) == [w EXCEPT !.panicked = (stepComponent(w) = Nil)]

\* Wizard.updateProvider that offers the choice of method for every
\* provider.
updateProvider_ChoiceForAll(w, msg) ==
    IF msg.type = "ProviderSelectedMsg"
    THEN Ret([w EXCEPT !.selectedProvider = Some(msg.Provider),
                       !.authMethodChoice = Some(NewAuthMethodChooser),
                       !.step = StepAuthMethod], {})
    ELSE Ret([w EXCEPT !.providerList =
                         Some(ProviderListUpdate(w.providerList[1], msg).m)],
             ProviderListUpdate(w.providerList[1], msg).cmds)

\* Wizard.updateProvider
updateProvider(w, msg) ==
    CASE msg.type = "ProviderSelectedMsg" /\ msg.Provider.ID = InferenceProviderAnthropic ->
            Ret([w EXCEPT !.selectedProvider = Some(msg.Provider),
                          !.authMethodChoice = Some(NewAuthMethodChooser),
                          !.step = StepAuthMethod], {})
      [] msg.type = "ProviderSelectedMsg" ->
            Ret([w EXCEPT !.selectedProvider = Some(msg.Provider),
                          !.apiKeyInput = Some(NewAPIKeyInput),
                          !.step = StepAPIKey], {})
      [] OTHER ->
            Ret([w EXCEPT !.providerList =
                            Some(ProviderListUpdate(w.providerList[1], msg).m)],
                ProviderListUpdate(w.providerList[1], msg).cmds)

\* Wizard.updateAuthMethod.  id is the identity of the OAuth2Flow it makes.
updateAuthMethod(w, msg, id) ==
    CASE msg.type = "AuthMethodSelectedMsg" /\ msg.Method = AuthMethodOAuth2 ->
            Ret([w EXCEPT !.authMethod = msg.Method,
                          !.oauthFlow = Some(NewOAuth2Flow(id)),
                          !.step = StepOAuth], {})
      [] msg.type = "AuthMethodSelectedMsg" ->
            Ret([w EXCEPT !.authMethod = msg.Method,
                          !.apiKeyInput = Some(NewAPIKeyInput),
                          !.step = StepAPIKey], {})
      [] OTHER ->
            Ret([w EXCEPT !.authMethodChoice =
                            Some(AuthMethodChooserUpdate(w.authMethodChoice[1], msg).m)],
                AuthMethodChooserUpdate(w.authMethodChoice[1], msg).cmds)

\* The model list of a tier, the cursor on the provider's default model.
modelList(p, tier, default) ==
    IF default # ""
    THEN SetCursorToModel(NewModelList(p.Models, tier), default)
    ELSE NewModelList(p.Models, tier)

\* The end of updateOAuth and of updateAPIKey: both model lists are made
\* and the wizard moves to the large model.
toLargeModel(w) ==
    [w EXCEPT
        !.largeModel = Some(modelList(w.selectedProvider[1], "large",
                                      w.selectedProvider[1].DefaultLargeModelID)),
        !.smallModel = Some(modelList(w.selectedProvider[1], "small",
                                      w.selectedProvider[1].DefaultSmallModelID)),
        !.step = StepLargeModel]

\* Wizard.updateOAuth
updateOAuth(w, msg) ==
    CASE msg.type = "KeyMsg" /\ msg.key = keyEnter ->
            Ret([w EXCEPT !.oauthFlow = Some(HandleConfirm(w.oauthFlow[1]).m)],
                HandleConfirm(w.oauthFlow[1]).cmds)
      [] msg.type = "OAuthCompleteMsg" ->
            Ret(toLargeModel([w EXCEPT !.oauthToken = msg.Token,
                                       !.apiKey = msg.Token[1].AccessToken]), {})
      [] OTHER ->
            Ret([w EXCEPT !.oauthFlow = Some(OAuth2FlowUpdate(w.oauthFlow[1], msg))],
                {})

\* Wizard.updateAPIKey
updateAPIKey(w, msg) ==
    IF msg.type = "APIKeyEnteredMsg"
    THEN Ret(toLargeModel([w EXCEPT !.apiKey = msg.APIKey]), {})
    ELSE Ret([w EXCEPT !.apiKeyInput =
                         Some(APIKeyInputUpdate(w.apiKeyInput[1], msg).m)],
             APIKeyInputUpdate(w.apiKeyInput[1], msg).cmds)

\* Wizard.updateLargeModel
updateLargeModel(w, msg) ==
    IF msg.type = "ModelSelectedMsg"
    THEN Ret([w EXCEPT !.selectedLarge = Some(msg.Model),
                       !.step = StepSmallModel], {})
    ELSE Ret([w EXCEPT !.largeModel =
                         Some(ModelListUpdate(w.largeModel[1], msg).m)],
             ModelListUpdate(w.largeModel[1], msg).cmds)

\* Wizard.updateSmallModel
updateSmallModel(w, msg) ==
    IF msg.type = "ModelSelectedMsg"
    THEN Ret([w EXCEPT !.selectedSmall = Some(msg.Model),
                       !.step = StepComplete], {saveConfigCmd})
    ELSE Ret([w EXCEPT !.smallModel =
                         Some(ModelListUpdate(w.smallModel[1], msg).m)],
             ModelListUpdate(w.smallModel[1], msg).cmds)

\* Wizard.goBack
goBack(w) ==
    CASE w.step = StepAuthMethod ->
            [w EXCEPT !.step = StepProvider, !.authMethodChoice = Nil]
      [] w.step = StepOAuth ->
            [w EXCEPT !.step = StepAuthMethod, !.oauthFlow = Nil]
      [] w.step = StepAPIKey /\ w.selectedProvider[1].ID = InferenceProviderAnthropic ->
            [w EXCEPT !.step = StepAuthMethod, !.apiKeyInput = Nil]
      [] w.step = StepAPIKey ->
            [w EXCEPT !.step = StepProvider, !.apiKeyInput = Nil]
      [] w.step = StepLargeModel /\ w.oauthToken # Nil ->
            [w EXCEPT !.step = StepOAuth]
      [] w.step = StepLargeModel /\ w.apiKeyInput # Nil ->
            [w EXCEPT !.step = StepAPIKey,
                      !.apiKeyInput = Some(Reset(w.apiKeyInput[1]))]
      [] w.step = StepLargeModel -> [w EXCEPT !.step = StepAPIKey]
      [] w.step = StepSmallModel -> [w EXCEPT !.step = StepLargeModel]
      [] OTHER -> w

\* Wizard.Update.  id is the identity of an OAuth2Flow the call may make.
WizardUpdate(w, msg, id) ==
    CASE msg.type = "KeyMsg" /\ msg.key = keyEsc -> Ret(goBack(w), {})
      [] w.step = StepProvider -> updateProvider(w, msg)
      [] w.step = StepAuthMethod -> updateAuthMethod(w, msg, id)
      [] w.step = StepOAuth -> updateOAuth(w, msg)
      [] w.step = StepAPIKey -> updateAPIKey(w, msg)
      [] w.step = StepLargeModel -> updateLargeModel(w, msg)
      [] w.step = StepSmallModel -> updateSmallModel(w, msg)
      [] OTHER -> Ret(w, {})

\* SaveWizardResult: [file, err].
SaveWizardResult(providerID, apiKey, largeModel, smallModel, old, writable) ==
    SaveToFile([NewConfig EXCEPT
                  !.Providers =
                      Put(EmptyMap, providerID,
                          [ProviderConfig(apiKey, FALSE, Nil) EXCEPT !.ID = providerID]),
                  !.Models =
                      Put(Put(EmptyMap, SelectedModelTypeLarge,
                              SelectedModel(largeModel, providerID, FALSE)),
                          SelectedModelTypeSmall,
                          SelectedModel(smallModel, providerID, FALSE))],
               old, writable)

\* SaveWizardResultWithOAuth: [file, err].
SaveWizardResultWithOAuth(providerID, tok, largeModel, smallModel, old, writable) ==
    SaveToFile([NewConfig EXCEPT
                  !.Providers =
                      Put(EmptyMap, providerID,
                          [ProviderConfig(tok.AccessToken, FALSE, Some(tok))
                             EXCEPT !.ID = providerID]),
                  !.Models =
                      Put(Put(EmptyMap, SelectedModelTypeLarge,
                              SelectedModel(largeModel, providerID, FALSE)),
                          SelectedModelTypeSmall,
                          SelectedModel(smallModel, providerID, FALSE))],
               old, writable)

\* The closure Wizard.saveConfig returns, run on the wizard as it then is:
\* [file, err].
saveConfig(w, old, writable) ==
    IF w.oauthToken # Nil
    THEN SaveWizardResultWithOAuth(w.selectedProvider[1].ID, w.oauthToken[1],
                                   w.selectedLarge[1].ID, w.selectedSmall[1].ID,
                                   old, writable)
    ELSE SaveWizardResult(w.selectedProvider[1].ID, w.apiKey,
                          w.selectedLarge[1].ID, w.selectedSmall[1].ID,
                          old, writable)

\* The message the closure returns, err being the error of the save.
saveConfigMsg(w, err) ==
    IF err # "nil"
    THEN InfoMsg("Failed to save config")
    ELSE CompleteMsg(w.selectedProvider[1].ID, w.apiKey,
                     w.selectedLarge[1].ID, w.selectedSmall[1].ID)

----------------------------------------------------------------------------
(* OAuth token expiry (oauth/token.go) *)

\* Token.SetExpiresAt at time t, in seconds.
SetExpiresAt(tok, t) == [tok EXCEPT !.ExpiresAt = t + tok.ExpiresIn]

\* Token.IsExpired with a strict comparison.
IsExpired_Strict(tok, t) == t > tok.ExpiresAt - (tok.ExpiresIn \div 10)

\* Token.IsExpired at time t: the buffer is a tenth of ExpiresIn, in whole
\* seconds.
IsExpired(tok, t) == t >= tok.ExpiresAt - (tok.ExpiresIn \div 10)

----------------------------------------------------------------------------
(* Project file search (load.go) *)

\* configFileName and its dot-prefixed form.
configFileName == "matrix.json"

hiddenFileName == ".matrix.json"

\* A path is the sequence of its elements, the root being the empty one.
\* filepath.Dir
Dir(path) == IF path = <<>> THEN path ELSE SubSeq(path, 1, Len(path) - 1)

\* filepath.Join(dir, name)
Join(dir, name) == Append(dir, name)

\* os.Stat(path) returns no error.
Stat(files, path) == path \in files

\* The loop of findProjectConfig looking at the dot-prefixed name first.
RECURSIVE searchUp_HiddenFirst(_, _)
searchUp_HiddenFirst(files, dir) ==
    CASE Stat(files, Join(dir, hiddenFileName)) -> Join(dir, hiddenFileName)
      [] Stat(files, Join(dir, configFileName)) -> Join(dir, configFileName)
      [] Dir(dir) = dir -> <<>>
      [] OTHER -> searchUp_HiddenFirst(files, Dir(dir))

\* The loop of findProjectConfig from dir upward: the path found, or the
\* empty string.
RECURSIVE searchUp(_, _)
searchUp(files, dir) ==
    CASE Stat(files, Join(dir, configFileName)) -> Join(dir, configFileName)
      [] Stat(files, Join(dir, hiddenFileName)) -> Join(dir, hiddenFileName)
      [] Dir(dir) = dir -> <<>>
      [] OTHER -> searchUp(files, Dir(dir))

\* findProjectConfig(): cwd is Nil when os.Getwd fails.
findProjectConfig(fs) ==
    IF fs.cwd = Nil THEN <<>> ELSE searchUp(fs.files, fs.cwd[1])

----------------------------------------------------------------------------
(* The terminal interface, the token and the search before they are used *)

NoWizard == NewWizard(<<>>)

\* Nothing done yet.  flows counts the OAuth2Flow made, event is the last
\* step of the session, cred the credential the user gave last and status
\* the status line of the interface.
NoLog == [flows |-> 0, event |-> [kind |-> "none"], cred |-> Nil, status |-> ""]

\* No token yet.  issued tells that a token is held, setAt the time of its
\* SetExpiresAt when that made ExpiresAt, expired the last answer of
\* IsExpired at the present time.
NoToken ==
    [ExpiresIn |-> 0, ExpiresAt |-> 0, issued |-> FALSE, setAt |-> Nil,
     expired |-> Nil]

NoFsys == [cwd |-> Nil, files |-> {}]

TuiIdle ==
    /\ wizard = NoWizard
    /\ inflight = {}
    /\ wlog = NoLog
    /\ issuedToken = NoToken
    /\ fsys = NoFsys
    /\ found = Nil

----------------------------------------------------------------------------
(* A session that loads the configuration and saves it back *)

InitLoad ==
    /\ TuiIdle
    /\ environ = Environ
    /\ globalFile \in GlobalFiles
    /\ projectFile \in ProjectFiles
    /\ cacheFile \in {CacheAbsent, ProvidersCache(0, OldProviders)}
    /\ dataDirOK = TRUE
    /\ now = 1
    /\ pc = "start"
    /\ cfg = Nil
    /\ loadErr = NoError
    /\ savedFile = NoSavedFile
    /\ provResult = NoProvResult
    /\ builder = NoBuilder
    /\ built = NoBuilt
    /\ merge = NoMerge
    /\ resolver = NoResolver
    /\ resolved = NoResolved

\* The state a load leaves: r is the result of Load or LoadFromFile and e
\* the error it returns.
Loaded(r, e, by, fetchOK) ==
    /\ loadErr' = e
    /\ cfg' = IF e = NoError THEN Some(r.cfg) ELSE Nil
    /\ cacheFile' = IF r.prov = Nil THEN cacheFile ELSE r.prov[1].file
    /\ provResult' = IF r.prov = Nil
                     THEN NoProvResult
                     ELSE ProvResult(r.prov[1], fetchOK, cacheFile, now)
    /\ pc' = by
    /\ UNCHANGED <<tuiVars, merge, resolver, resolved,
                   environ, globalFile, projectFile, dataDirOK, now, savedFile,
                   builder, built>>

\* cfg, err := Load()
DoLoad ==
    /\ pc = "start"
    /\ \E fetchOK \in BOOLEAN :
         LET r == Load(environ, globalFile, projectFile, fetchOK, cacheFile,
                       dataDirOK, now)
         IN  \E e \in r.errs : Loaded(r, e, "Load", fetchOK)

\* cfg, err := LoadFromFile(path), path naming the project file.
DoLoadFromFile ==
    /\ pc = "start"
    /\ \E fetchOK \in BOOLEAN :
         LET r == LoadFromFile(environ, projectFile, fetchOK, cacheFile,
                               dataDirOK, now)
         IN  \E e \in r.errs : Loaded(r, e, "LoadFromFile", fetchOK)

\* SaveToFile(cfg, path) on the Config a load returned.
DoSave ==
    /\ pc \in {"Load", "LoadFromFile"}
    /\ cfg # Nil
    /\ \E writable \in BOOLEAN :
         savedFile' = SaveToFile(cfg[1], savedFile, writable).file
    /\ pc' = "saved-" \o pc
    /\ UNCHANGED <<tuiVars, merge, resolver, resolved,
                   environ, globalFile, projectFile, cacheFile, dataDirOK, now,
                   cfg, loadErr, provResult, builder, built>>

NextLoad == DoLoad \/ DoLoadFromFile \/ DoSave

SpecLoad == InitLoad /\ [][NextLoad]_vars

----------------------------------------------------------------------------
(* Properties of the loader and the saver *)

\* Whether the last load was Load() (and not LoadFromFile).
ByLoad == pc \in {"Load", "saved-Load"}

ByLoadFromFile == pc \in {"LoadFromFile", "saved-LoadFromFile"}

\* The load returned a Config and a nil error.
LoadSucceeded == (ByLoad \/ ByLoadFromFile) /\ cfg # Nil

\* The provider entries and tiers the last load read from the files:
\* project over global for Load, the one file for LoadFromFile.
ReadProviders ==
    IF ByLoad
    THEN Overlay(globalFile.doc.providers, projectFile.doc.providers)
    ELSE projectFile.doc.providers

ReadModels ==
    IF ByLoad
    THEN Overlay(globalFile.doc.models, projectFile.doc.models)
    ELSE projectFile.doc.models

\* The ids of the metadata the last load obtained from LoadProviders.
KnownIDs == {provResult.providers[i].ID : i \in 1..Len(provResult.providers)}

\* The key holds a reference to a variable the environment does not define.
RefersToUndefined(key) ==
    \E i \in 1..Len(key) :
        MatchAt(key, i).ok /\ MatchAt(key, i).name \notin DOMAIN environ

\* The providers the claim C1 is about: metadata-known, with a key that
\* references an undefined variable.
Unresolvable ==
    {id \in DOMAIN ReadProviders \cap KnownIDs :
        RefersToUndefined(ReadProviders[id].APIKey)}

\* C1 as stated: for every configuration in which a metadata-known
\* provider's API key references an undefined environment variable, Load
\* completes without error and the returned Config has no entry for it.
C1_AsStated ==
    (ByLoad /\ Unresolvable # {}) =>
        /\ loadErr = NoError
        /\ \A id \in Unresolvable : id \notin DOMAIN cfg[1].Providers

\* C1 (amended): for every such configuration, whenever Load succeeds the
\* returned Config.Providers has no entry for that provider; Load never
\* fails with a resolution error, only in tier configuration: a configured
\* tier names a provider that is missing (the removed one included) or
\* disabled, or no tier is configured and no provider yields a default.
C1_UnresolvedProviderDropped ==
    (ByLoad /\ Unresolvable # {}) =>
        /\ cfg # Nil => \A id \in Unresolvable : id \notin DOMAIN cfg[1].Providers
        /\ loadErr.what \in {"nil", "not configured", "disabled", NoValidProviders.what}
        /\ loadErr.what = "not configured" =>
              /\ loadErr.tier \in DOMAIN ReadModels
              /\ ReadModels[loadErr.tier].Provider \in
                    Unresolvable \cup ({"openai", "anthropic", "local"} \ DOMAIN ReadProviders)
        /\ loadErr.what = "disabled" =>
              /\ loadErr.tier \in DOMAIN ReadModels
              /\ ReadProviders[ReadModels[loadErr.tier].Provider].Disable
        /\ loadErr = NoValidProviders => DOMAIN ReadModels = {}

\* A successful Load that dropped an unresolvable provider and kept another.
C1_Witness ==
    /\ pc = "Load"
    /\ cfg # Nil
    /\ "openai" \in Unresolvable
    /\ DOMAIN cfg[1].Providers = {"anthropic"}

\* C2 as stated: after a successful Load every remaining entry carries a
\* non-empty API key with every reference resolved, or an OAuth token.
C2_EveryEntryHasCredential ==
    (ByLoad /\ cfg # Nil) =>
        \A id \in DOMAIN cfg[1].Providers :
            LET e == cfg[1].Providers[id]
            IN  \/ e.APIKey # EmptyStr /\ ~HasReference(e.APIKey)
                \/ e.OAuthToken # Nil

\* C3: after a successful Load or LoadFromFile every tier of Config.Models
\* names a provider that is a key of Config.Providers and is not disabled.
C3_TiersNameEnabledProviders ==
    LoadSucceeded =>
        \A t \in DOMAIN cfg[1].Models :
            /\ cfg[1].Models[t].Provider \in DOMAIN cfg[1].Providers
            /\ ~cfg[1].Providers[cfg[1].Models[t].Provider].Disable

\* A successful load whose tiers came from default selection, past a
\* disabled provider that is still in the Config.
C3_Witness ==
    /\ LoadSucceeded
    /\ DOMAIN ReadModels = {}
    /\ DOMAIN cfg[1].Models = {SelectedModelTypeLarge, SelectedModelTypeSmall}
    /\ \E id \in DOMAIN cfg[1].Providers : cfg[1].Providers[id].Disable

\* C4 as stated: for every provider whose API key came from a file as a
\* $VAR template, saving the Config that Load returned writes the template
\* and never the resolved value.
C4_SaveWritesTemplate ==
    (pc = "saved-Load" /\ savedFile.state = "ok") =>
        \A id \in DOMAIN cfg[1].Providers \cap DOMAIN ReadProviders :
            HasReference(ReadProviders[id].APIKey) =>
                /\ id \in DOMAIN savedFile.doc.Providers
                /\ savedFile.doc.Providers[id].APIKey = ReadProviders[id].APIKey

\* SaveToFile has written the Config the load returned.
Saved == pc \in {"saved-Load", "saved-LoadFromFile"} /\ savedFile.state = "ok"

\* C24: the file SaveToFile writes holds a provider entry exactly for the
\* entries of the Config with a non-empty API key or an OAuth token, with
\* that key and token, and holds the tiers and the options of the Config
\* as they are.
C24_SavesCredentialedProviders ==
    Saved =>
        /\ \A id \in DOMAIN cfg[1].Providers :
              id \in DOMAIN savedFile.doc.Providers <=>
                 \/ cfg[1].Providers[id].APIKey # EmptyStr
                 \/ cfg[1].Providers[id].OAuthToken # Nil
        /\ \A id \in DOMAIN savedFile.doc.Providers :
              /\ id \in DOMAIN cfg[1].Providers
              /\ savedFile.doc.Providers[id].APIKey = cfg[1].Providers[id].APIKey
              /\ savedFile.doc.Providers[id].OAuthToken =
                    cfg[1].Providers[id].OAuthToken
        /\ savedFile.doc.Models = cfg[1].Models
        /\ savedFile.doc.Options = cfg[1].Options

\* A saved Config one of whose providers has an OAuth token and no key and
\* is written, and another has neither and is left out.
C24_Witness ==
    /\ Saved
    /\ \E id \in DOMAIN savedFile.doc.Providers :
          /\ cfg[1].Providers[id].APIKey = EmptyStr
          /\ cfg[1].Providers[id].OAuthToken # Nil
    /\ \E id \in DOMAIN cfg[1].Providers : id \notin DOMAIN savedFile.doc.Providers
    /\ DOMAIN cfg[1].Models # {}

----------------------------------------------------------------------------
(* Sessions that synchronize the provider metadata over time *)

\* The last hour the clock reaches.
MaxTime == 25

\* The hours the clock may jump in one step.
TickSteps == {1, cacheMaxAge - 1}

\* The timestamps of a cache file found at the start, at hour 0: older
\* than, exactly at and inside the 24 hours, and written by a clock ahead.
InitStamps == {0 - cacheMaxAge - 1, 0 - cacheMaxAge, 1 - cacheMaxAge, 0, 1}

InitMeta ==
    /\ TuiIdle
    /\ environ = Environ
    /\ globalFile = FileAbsent
    /\ projectFile = FileAbsent
    /\ cacheFile \in {CacheAbsent, CacheUnreadable, CacheCorrupt}
                     \cup {ProvidersCache(u, OldProviders) : u \in InitStamps}
    /\ dataDirOK \in BOOLEAN
    /\ now = 0
    /\ pc = "start"
    /\ cfg = Nil
    /\ loadErr = NoError
    /\ savedFile = NoSavedFile
    /\ provResult = NoProvResult
    /\ builder = NoBuilder
    /\ built = NoBuilt
    /\ merge = NoMerge
    /\ resolver = NoResolver
    /\ resolved = NoResolved

\* providers, err := LoadProviders(cfg)
DoLoadProviders ==
    /\ \E fetchOK \in BOOLEAN :
         LET r == LoadProviders(fetchOK, cacheFile, dataDirOK, now)
         IN  /\ provResult' = ProvResult(r, fetchOK, cacheFile, now)
             /\ cacheFile' = r.file
    /\ UNCHANGED <<tuiVars, merge, resolver, resolved,
                   environ, globalFile, projectFile, dataDirOK, now, pc, cfg,
                   loadErr, savedFile, builder, built>>

\* err := UpdateProviders(cfg, source)
DoUpdateProviders ==
    /\ \E source \in UpdateSources :
         LET r == UpdateProviders(source, cacheFile, dataDirOK, now)
         IN  /\ provResult' = [op |-> "UpdateProviders", providers |-> <<>>,
                                err |-> r.err, src |-> source, fetchOK |-> FALSE,
                                before |-> cacheFile, at |-> now]
             /\ cacheFile' = r.file
    /\ UNCHANGED <<tuiVars, merge, resolver, resolved,
                   environ, globalFile, projectFile, dataDirOK, now, pc, cfg,
                   loadErr, savedFile, builder, built>>

\* Time passes between two calls.
Tick ==
    /\ \E d \in TickSteps : now + d <= MaxTime /\ now' = now + d
    /\ UNCHANGED <<tuiVars, merge, resolver, resolved,
                   environ, globalFile, projectFile, cacheFile, dataDirOK, pc,
                   cfg, loadErr, savedFile, provResult, builder, built>>

NextMeta == DoLoadProviders \/ DoUpdateProviders \/ Tick

SpecMeta == InitMeta /\ [][NextMeta]_vars

\* The cache file a LoadProviders call found was a readable ProvidersCache
\* written less than 24 hours before the call.
FoundFreshCache ==
    /\ provResult.before.state = "ok"
    /\ provResult.at - provResult.before.UpdatedAt < cacheMaxAge

\* C7: LoadProviders returns the fetched list whenever the fetch succeeds,
\* the cached list only when the fetch failed and a readable cache less
\* than 24 hours old exists, and the embedded dataset only when the fetch
\* failed and no such cache exists.
C7_FallbackChain ==
    provResult.op = "LoadProviders" =>
        /\ provResult.src \in {"fetch", "cache", "embedded"}
        /\ provResult.fetchOK =>
              provResult.src = "fetch" /\ provResult.providers = RemoteProviders
        /\ provResult.src = "cache" =>
              /\ ~provResult.fetchOK
              /\ FoundFreshCache
              /\ provResult.providers = provResult.before.Providers
        /\ provResult.src = "embedded" =>
              /\ ~provResult.fetchOK
              /\ ~FoundFreshCache
              /\ provResult.providers = EmbeddedProviders

\* A failed fetch answered from a cache that an earlier fetch wrote 23
\* hours before.
C7_Witness ==
    /\ provResult.op = "LoadProviders"
    /\ provResult.src = "cache"
    /\ provResult.providers = RemoteProviders
    /\ provResult.at - provResult.before.UpdatedAt = cacheMaxAge - 1

\* The list UpdateProviders obtains from a source, when it obtains one.
ObtainedFrom(source) ==
    CASE source = "embedded" -> EmbeddedProviders
      [] source = "http-ok" -> RemoteProviders
      [] OTHER -> LocalProviders

\* One call, as C40 wants it: the cache file changes only in a call that
\* obtained a list, and then holds that list with the time of the call.
C40_CacheStep ==
    /\ cacheFile' # cacheFile =>
          /\ provResult'.before = cacheFile
          /\ provResult'.at = now
          /\ dataDirOK
          /\ \/ /\ provResult'.op = "LoadProviders"
                /\ provResult'.fetchOK
                /\ cacheFile' = ProvidersCache(now, provResult'.providers)
             \/ /\ provResult'.op = "UpdateProviders"
                /\ provResult'.src \in {"embedded", "http-ok", "file-ok"}
                /\ provResult'.err = "nil"
                /\ cacheFile' = ProvidersCache(now, ObtainedFrom(provResult'.src))
    /\ (provResult' # provResult /\ provResult'.op = "LoadProviders"
            /\ ~provResult'.fetchOK) => cacheFile' = cacheFile
    /\ (provResult' # provResult /\ provResult'.op = "UpdateProviders"
            /\ provResult'.src \in {"file-missing", "file-invalid", "http-fail"}) =>
          /\ cacheFile' = cacheFile
          /\ provResult'.err # "nil"

\* C40: the metadata cache file is written only after a successful fetch
\* in LoadProviders or after UpdateProviders has obtained its source; a
\* failed fetch, a fallback to cached or embedded data and a failed
\* UpdateProviders leave its content and timestamp unchanged.
C40_CacheWrittenOnlyOnSuccess == [][C40_CacheStep]_vars

\* A failed fetch found a stale cache file and fell back to the embedded
\* dataset: the file is as it was before the call.
C40_Witness ==
    /\ provResult.op = "LoadProviders"
    /\ ~provResult.fetchOK
    /\ provResult.src = "embedded"
    /\ provResult.before.state = "ok"
    /\ provResult.at > provResult.before.UpdatedAt
    /\ cacheFile = provResult.before

\* C8: LoadProviders never returns the contents of a cache file whose
\* updated_at lies 24 hours or more in the past: the fallback treats it as
\* a miss and returns the embedded dataset, without error.
C8_StaleCacheIsAMiss ==
    (/\ provResult.op = "LoadProviders"
     /\ provResult.before.state = "ok"
     /\ provResult.at - provResult.before.UpdatedAt >= cacheMaxAge) =>
        /\ provResult.src # "cache"
        /\ provResult.err = "nil"
        /\ ~provResult.fetchOK =>
              /\ provResult.src = "embedded"
              /\ provResult.providers = EmbeddedProviders

\* A failed fetch that found a cache exactly 24 hours old, holding another
\* list than the embedded one.
C8_Witness ==
    /\ provResult.op = "LoadProviders"
    /\ ~provResult.fetchOK
    /\ provResult.before.state = "ok"
    /\ provResult.before.Providers # EmbeddedProviders
    /\ provResult.at - provResult.before.UpdatedAt = cacheMaxAge
    /\ provResult.src = "embedded"

\* C9: LoadProviders returns a nil error whatever the fetch outcome, the
\* cache state and the writability of the cache directory; a fetch that
\* succeeds while the cache write fails still returns the fetched list.
C9_NeverFails ==
    provResult.op = "LoadProviders" =>
        /\ provResult.err = "nil"
        /\ provResult.fetchOK => provResult.providers = RemoteProviders

\* A successful fetch whose cache write failed: the old file is still there.
C9_Witness ==
    /\ provResult.op = "LoadProviders"
    /\ provResult.fetchOK
    /\ ~dataDirOK
    /\ provResult.providers = RemoteProviders
    /\ cacheFile = provResult.before
    /\ cacheFile.state = "corrupt"


----------------------------------------------------------------------------
(* A session that builds the tier models from a loaded configuration *)

\* The most buildModel calls one Builder serves.
MaxCalls == 4

\* An OAuth access token as the wizard's OAuth path stores it in APIKey.
BearerKey == BearerPrefix \o <<"s">>

ExistingBeta == Put(EmptyMap, "anthropic-beta", <<"existing-feature">>)

BuildOpenAIEntries == {ProviderConfig(KeyLiteral, d, Nil) : d \in BOOLEAN}

BuildAnthropicEntries ==
    {[ProviderConfig(k, FALSE, Nil) EXCEPT !.ExtraHeaders = h] :
        k \in {KeyLiteral, BearerKey}, h \in {Nil, Some(ExistingBeta)}}

\* "local" is not in the metadata: an OpenAI-compatible endpoint.
BuildLocalEntries ==
    {[ProviderConfig(KeyNone, FALSE, Nil) EXCEPT !.Type = TypeOpenAICompat,
                                                 !.BaseURL = <<"l">>]}

\* "other" is a second provider outside the metadata, of a type the
\* builder does not know; like "local" its file entry gives no id.
BuildOtherEntries ==
    {[ProviderConfig(KeyNone, FALSE, Nil) EXCEPT !.Type = "ollama"]}

BuildProviderMaps ==
    {Overlay(Overlay(Overlay(a, b), c), d) :
        a \in OptMaps("openai", BuildOpenAIEntries),
        b \in OptMaps("anthropic", BuildAnthropicEntries),
        c \in OptMaps("local", BuildLocalEntries),
        d \in OptMaps("other", BuildOtherEntries)}

\* The selections a tier may hold: a listed model of a known provider or a
\* model of a provider outside the metadata; Think, which only Anthropic
\* providers look at, set or not.
BuildTierChoices(tier, model) ==
    OptMaps(tier, {SelectedModel(model[id], id, FALSE) : id \in DOMAIN model}
                  \cup {SelectedModel(model["anthropic"], "anthropic", TRUE)})

BuildTierMaps ==
    {Overlay(a, b) :
        a \in BuildTierChoices(SelectedModelTypeLarge,
                 [id \in {"openai", "anthropic", "local", "other"} |->
                    IF id = "openai" THEN "gpt-4o"
                    ELSE IF id = "anthropic" THEN "claude-opus" ELSE "llama"]),
        b \in BuildTierChoices(SelectedModelTypeSmall,
                 [id \in {"openai", "anthropic", "local", "other"} |->
                    IF id = "openai" THEN "gpt-4o-mini"
                    ELSE IF id = "anthropic" THEN "claude-haiku" ELSE "llama"])}

\* The configurations handed to NewBuilder: tiers and providers as
\* configureProviders leaves them with the embedded metadata.
BuildConfigs ==
    {configureProviders([NewConfig EXCEPT !.Models = m, !.Providers = p,
                                          !.knownProviders = EmbeddedProviders],
                        Environ) :
        m \in BuildTierMaps, p \in BuildProviderMaps}

InitBuild ==
    /\ TuiIdle
    /\ environ = Environ
    /\ globalFile = FileAbsent
    /\ projectFile = FileAbsent
    /\ cacheFile = CacheAbsent
    /\ dataDirOK = TRUE
    /\ now = 0
    /\ pc = "builder"
    /\ \E c \in BuildConfigs :
         /\ cfg = Some(c)
         /\ builder = NewBuilder(c)
    /\ loadErr = NoError
    /\ savedFile = NoSavedFile
    /\ provResult = NoProvResult
    /\ built = NoBuilt
    /\ merge = NoMerge
    /\ resolver = NoResolver
    /\ resolved = NoResolved

\* The state a BuildModels call leaves, r being what it returned.
BuildModelsReturns(r) ==
    /\ builder' = r.b
    /\ built' = [called |-> TRUE, large |-> r.large, small |-> r.small,
                 err |-> r.err, builds |-> r.b.calls - builder.calls]

\* large, small, err := builder.BuildModels(ctx)
DoBuildModels ==
    /\ pc = "builder"
    /\ builder.calls + 2 <= MaxCalls
    /\ \E ext \in [{"large", "small"} -> ExtOutcomes] :
         BuildModelsReturns(BuildModels(builder, ext))
    /\ UNCHANGED <<tuiVars, merge, resolver, resolved,
                   environ, globalFile, projectFile, cacheFile, dataDirOK, now,
                   pc, cfg, loadErr, savedFile, provResult>>

\* builder = NewBuilder(cfg): a new session on the same configuration.
DoNewBuilder ==
    /\ pc = "builder"
    /\ built.called
    /\ builder' = NewBuilder(builder.cfg)
    /\ built' = NoBuilt
    /\ UNCHANGED <<tuiVars, merge, resolver, resolved,
                   environ, globalFile, projectFile, cacheFile, dataDirOK, now,
                   pc, cfg, loadErr, savedFile, provResult>>

NextBuild == DoBuildModels \/ DoNewBuilder

SpecBuild == InitBuild /\ [][NextBuild]_vars

----------------------------------------------------------------------------
(* Properties of the builder *)

BuildSucceeded == built.called /\ built.err = NoBuildError

\* The provider entry a built model was selected from.
ProviderOf(m) == builder.cfg.Providers[m.ModelCfg.Provider]

\* The provider client serving a built model.
ClientOf(m) == builder.made[m.Model[1].provider].client

\* The anthropic-beta value the configuration calls for when Think is set.
ExpectedBeta(p) ==
    IF p.ExtraHeaders # Nil /\ "anthropic-beta" \in DOMAIN p.ExtraHeaders[1]
    THEN CommaJoin(p.ExtraHeaders[1]["anthropic-beta"], InterleavedThinking)
    ELSE <<InterleavedThinking>>

ThinkingOnAnthropic(m) ==
    ProviderOf(m).Type = TypeAnthropic /\ m.ModelCfg.Think

HasThinkingHeader(m) ==
    /\ ClientOf(m).headers # Nil
    /\ "anthropic-beta" \in DOMAIN ClientOf(m).headers[1]
    /\ ClientOf(m).headers[1]["anthropic-beta"] = ExpectedBeta(ProviderOf(m))

\* C5: every model BuildModels returns whose provider is of Anthropic type
\* and whose Think flag is set is served by a client built with the
\* interleaved-thinking token in anthropic-beta, comma-joined after any
\* value configured there.
C5_ThinkingModelsHaveHeader ==
    BuildSucceeded =>
        \A m \in {built.large, built.small} :
            ThinkingOnAnthropic(m) => HasThinkingHeader(m)

\* The rule does act: a thinking model served by a client with the token
\* joined to a configured value.
C5_HeaderJoined ==
    /\ BuildSucceeded
    /\ ThinkingOnAnthropic(built.large)
    /\ ClientOf(built.large).headers # Nil
    /\ "anthropic-beta" \in DOMAIN ClientOf(built.large).headers[1]
    /\ ClientOf(built.large).headers[1]["anthropic-beta"]
           = <<"existing-feature", InterleavedThinking>>

\* C6: within one Builder at most one client is constructed per provider
\* id, the cache holds exactly the constructed clients, and each model
\* returned is served by the cached client of its provider's id.
C6_OneClientPerID ==
    /\ \A i, j \in 1..Len(builder.made) :
          builder.made[i].id = builder.made[j].id => i = j
    /\ DOMAIN builder.cache = {builder.made[i].id : i \in 1..Len(builder.made)}
    /\ \A id \in DOMAIN builder.cache :
          /\ builder.cache[id] \in 1..Len(builder.made)
          /\ builder.made[builder.cache[id]].id = id
    /\ BuildSucceeded =>
          \A m \in {built.large, built.small} :
              /\ ProviderOf(m).ID \in DOMAIN builder.cache
              /\ m.Model[1].provider = builder.cache[ProviderOf(m).ID]

\* A second BuildModels on the same Builder was served from the cache: four
\* buildModel calls, two tiers of one provider, one client.
C6_Witness ==
    /\ BuildSucceeded
    /\ builder.calls = 4
    /\ Len(builder.made) = 1
    /\ built.large.ModelCfg.Provider = built.small.ModelCfg.Provider

LargeOnly ==
    /\ SelectedModelTypeLarge \in DOMAIN builder.cfg.Models
    /\ SelectedModelTypeSmall \notin DOMAIN builder.cfg.Models

\* C10 as stated: with a large tier and no small tier BuildModels succeeds
\* and returns the large model as the small one after a single build.
C10_AsStated ==
    (built.called /\ LargeOnly) =>
        /\ built.err = NoBuildError
        /\ built.small = built.large
        /\ built.builds = 1

\* C10: with a large tier and no small tier BuildModels makes one build
\* and fails only if that build of the large tier fails; when it succeeds
\* the small model is the large model: same handle, same selection, same
\* metadata.
C10_SmallFallsBackToLarge ==
    (built.called /\ LargeOnly) =>
        /\ built.builds = 1
        /\ built.err.stage \in {"", "large"}
        /\ built.err = NoBuildError =>
              /\ built.large.Model # Nil
              /\ built.small.Model = built.large.Model
              /\ built.small.ModelCfg = built.large.ModelCfg
              /\ built.small.CatwalkCfg = built.large.CatwalkCfg
              /\ built.large.ModelCfg = builder.cfg.Models[SelectedModelTypeLarge]

C10_Witness ==
    /\ built.called
    /\ LargeOnly
    /\ built.err = NoBuildError
    /\ built.small = built.large
    /\ built.large.CatwalkCfg # ZeroCatwalkModel


SupportedTypes == {TypeOpenAI, TypeOpenAICompat, TypeAnthropic}

\* The tiers of the builder's Config that cannot be built: the provider is
\* not a key of Config.Providers, or its type is not a supported one.
MissingProviderTiers ==
    {t \in DOMAIN builder.cfg.Models :
        builder.cfg.Models[t].Provider \notin DOMAIN builder.cfg.Providers}

UnsupportedTypeTiers ==
    {t \in DOMAIN builder.cfg.Models \ MissingProviderTiers :
        builder.cfg.Providers[builder.cfg.Models[t].Provider].Type
            \notin SupportedTypes}

\* C11 as stated: BuildModels returns an error and zero-valued models for
\* both tiers whenever the large tier is absent, a configured tier names a
\* provider that is not a key of Config.Providers, or a tier's provider has
\* a type other than openai, openai-compatible or anthropic.
C11_AsStated ==
    (/\ built.called
     /\ \/ SelectedModelTypeLarge \notin DOMAIN builder.cfg.Models
        \/ MissingProviderTiers # {}
        \/ UnsupportedTypeTiers # {})
    => /\ built.err # NoBuildError
       /\ built.large = ZeroModel
       /\ built.small = ZeroModel


\* C29: two tiers of one BuildModels call that name different entries of
\* Config.Providers are served by different clients.
C29_DistinctEntriesDistinctClients ==
    BuildSucceeded =>
        \A m, n \in {built.large, built.small} :
            m.ModelCfg.Provider # n.ModelCfg.Provider =>
                m.Model[1].provider # n.Model[1].provider

\* C38: BuildModels never returns a model served by a provider whose
\* Disable flag is set.
C38_NoModelFromDisabledProvider ==
    BuildSucceeded =>
        \A m \in {built.large, built.small} : ~ProviderOf(m).Disable

\* C12: no sequence of builds changes the ExtraHeaders of a ProviderConfig
\* stored in the Config: every entry holds the map it held when the Config
\* was handed to the first Builder, without the thinking token and without
\* an Authorization header.
C12_ExtraHeadersUnchanged ==
    /\ DOMAIN builder.cfg.Providers = DOMAIN cfg[1].Providers
    /\ \A id \in DOMAIN builder.cfg.Providers :
          /\ builder.cfg.Providers[id].ExtraHeaders = cfg[1].Providers[id].ExtraHeaders
          /\ builder.cfg.Providers[id].ExtraHeaders # Nil =>
                LET h == builder.cfg.Providers[id].ExtraHeaders[1]
                IN  /\ "Authorization" \notin DOMAIN h
                    /\ "anthropic-beta" \in DOMAIN h =>
                          \A i \in 1..Len(h["anthropic-beta"]) :
                              h["anthropic-beta"][i] # InterleavedThinking

\* After two BuildModels calls a client was built for a thinking model of
\* an Anthropic provider with a configured anthropic-beta value and a
\* bearer key: the client carries the joined token and the Authorization
\* header, and the stored map still holds the configured value only.
C12_Witness ==
    /\ BuildSucceeded
    /\ builder.calls = 4
    /\ ThinkingOnAnthropic(built.large)
    /\ HasThinkingHeader(built.large)
    /\ "Authorization" \in DOMAIN ClientOf(built.large).headers[1]
    /\ ProviderOf(built.large).ExtraHeaders = Some(ExistingBeta)


----------------------------------------------------------------------------
(* A session that merges a project configuration into a global one *)

\* The most mergeConfig calls of a session.
MaxMerges == 2

\* The option blocks one side may hold: none, an empty one, and blocks
\* with some fields set to values of that side.
MergeOptionBlocks(side) ==
    {Nil, Some(ZeroOptions),
     Some([ZeroOptions EXCEPT !.ContextPaths = <<side>>]),
     Some([ZeroOptions EXCEPT !.DataDir = side, !.Debug = TRUE]),
     Some([ZeroOptions EXCEPT !.ContextPaths = <<side, "x">>, !.DataDir = side])}

\* The configurations one side may hold: each tier and each provider
\* absent or bound to an entry of that side.
MergeConfigs(side) ==
    {[NewConfig EXCEPT !.Models = Overlay(l, sm), !.Providers = Overlay(a, b),
                       !.Options = o] :
        l \in OptMaps(SelectedModelTypeLarge, {SelectedModel(side, "openai", FALSE)}),
        sm \in OptMaps(SelectedModelTypeSmall, {SelectedModel(side, "anthropic", TRUE)}),
        a \in OptMaps("openai", {ProviderConfig(<<side>>, FALSE, Nil)}),
        b \in OptMaps("anthropic", {ProviderConfig(<<side>>, TRUE, Nil)}),
        o \in MergeOptionBlocks(side)}

InitMerge ==
    /\ TuiIdle
    /\ environ = Environ
    /\ globalFile = FileAbsent
    /\ projectFile = FileAbsent
    /\ cacheFile = CacheAbsent
    /\ dataDirOK = TRUE
    /\ now = 0
    /\ pc = "merge"
    /\ cfg = Nil
    /\ loadErr = NoError
    /\ savedFile = NoSavedFile
    /\ provResult = NoProvResult
    /\ builder = NoBuilder
    /\ built = NoBuilt
    /\ \E g \in MergeConfigs("g"), p \in MergeConfigs("p") :
         merge = [called |-> 0, dst0 |-> g, src |-> p, dst |-> g]
    /\ resolver = NoResolver
    /\ resolved = NoResolved

\* mergeConfig(dst, src)
DoMergeConfig ==
    /\ pc = "merge"
    /\ merge.called < MaxMerges
    /\ merge' = [merge EXCEPT !.called = merge.called + 1,
                              !.dst = mergeConfig(merge.dst, merge.src)]
    /\ UNCHANGED <<tuiVars, environ, globalFile, projectFile, cacheFile, dataDirOK, now,
                   pc, cfg, loadErr, savedFile, provResult, builder, built,
                   resolver, resolved>>

NextMerge == DoMergeConfig

SpecMerge == InitMerge /\ [][NextMerge]_vars

\* m holds src's entry for every key of src, dst0's entry for every key of
\* dst0 only, and no other key.
MergedMap(m, dst0, src) ==
    /\ DOMAIN m = DOMAIN dst0 \cup DOMAIN src
    /\ \A k \in DOMAIN src : m[k] = src[k]
    /\ \A k \in DOMAIN dst0 \ DOMAIN src : m[k] = dst0[k]

\* C13: after merging a project config into a global config every tier
\* key and provider key of the project maps to the project's entry, every
\* key of the global config only keeps the global entry, and there is no
\* other key.
C13_ProjectOverridesGlobal ==
    merge.called >= 1 =>
        /\ MergedMap(merge.dst.Models, merge.dst0.Models, merge.src.Models)
        /\ MergedMap(merge.dst.Providers, merge.dst0.Providers, merge.src.Providers)

\* A merge in which one provider key is on both sides, one on the global
\* side only and one tier on the project side only.
C13_Witness ==
    /\ merge.called = 1
    /\ DOMAIN merge.dst0.Providers = {"openai", "anthropic"}
    /\ DOMAIN merge.src.Providers = {"openai"}
    /\ DOMAIN merge.dst0.Models = {SelectedModelTypeLarge}
    /\ DOMAIN merge.src.Models = {SelectedModelTypeSmall}
    /\ merge.dst.Providers["openai"].APIKey = <<"p">>
    /\ merge.dst.Providers["anthropic"].APIKey = <<"g">>

\* C14: merging the same project config into a global config twice (or
\* more often) gives the Models, Providers and Options that merging it once
\* gives.
C14_MergeIdempotent ==
    merge.called >= 2 =>
        LET once == mergeConfig(merge.dst0, merge.src)
        IN  /\ merge.dst.Models = once.Models
            /\ merge.dst.Providers = once.Providers
            /\ merge.dst.Options = once.Options

\* A second merge where both sides hold context paths and keys in common.
C14_Witness ==
    /\ merge.called = 2
    /\ merge.dst0.Options # Nil /\ merge.src.Options # Nil
    /\ Len(merge.dst0.Options[1].ContextPaths) > 0
    /\ Len(merge.src.Options[1].ContextPaths) > 0
    /\ DOMAIN merge.dst0.Providers \cap DOMAIN merge.src.Providers # {}

\* The value an option field has in a block, a nil block having none set.
OptionsOf(opt) == IF opt = Nil THEN ZeroOptions ELSE opt[1]

\* A field set on exactly one of the two sides has that side's value in r.
OneSidedKept(r, d, o) ==
    /\ (Len(d.ContextPaths) > 0 /\ Len(o.ContextPaths) = 0) => r.ContextPaths = d.ContextPaths
    /\ (Len(d.ContextPaths) = 0 /\ Len(o.ContextPaths) > 0) => r.ContextPaths = o.ContextPaths
    /\ (d.DataDir # "" /\ o.DataDir = "") => r.DataDir = d.DataDir
    /\ (d.DataDir = "" /\ o.DataDir # "") => r.DataDir = o.DataDir
    /\ (d.Debug # o.Debug) => r.Debug

\* C15 as stated: after mergeConfig(dst, src) dst.Options is non-nil
\* whichever of the two blocks, or both, was nil, and no option field set
\* on exactly one side is lost.
C15_AsStated ==
    merge.called = 1 =>
        /\ merge.dst.Options # Nil
        /\ OneSidedKept(OptionsOf(merge.dst.Options),
                        OptionsOf(merge.dst0.Options), OptionsOf(merge.src.Options))

\* C15: after mergeConfig(dst, src) dst.Options is nil only if both blocks
\* were nil before, and no option field set on exactly one side is lost.
C15_OptionsNormalized ==
    merge.called = 1 =>
        /\ merge.dst.Options = Nil
              <=> (merge.dst0.Options = Nil /\ merge.src.Options = Nil)
        /\ OneSidedKept(OptionsOf(merge.dst.Options),
                        OptionsOf(merge.dst0.Options), OptionsOf(merge.src.Options))

\* A merge into a nil block that took over the fields of the source.
C15_Witness ==
    /\ merge.called = 1
    /\ merge.dst0.Options = Nil
    /\ merge.src.Options # Nil
    /\ merge.src.Options[1].Debug
    /\ merge.dst.Options = merge.src.Options


----------------------------------------------------------------------------
(* Provider reconciliation on its own: Load from the point where the files
   are merged and the metadata is known *)

\* The model lists a file entry may declare: none, a listed model under the
\* user's own name, a model the metadata does not list, both, and a list
\* that gives one id twice.
UserModelLists ==
    {<<>>,
     <<CatwalkModel("gpt-4o", "mine")>>,
     <<CatwalkModel("tuned", "Tuned")>>,
     <<CatwalkModel("tuned", "Tuned"), CatwalkModel("gpt-4o-mini", "mini")>>,
     <<CatwalkModel("gpt-4o", "mine"), CatwalkModel("gpt-4o", "again")>>}

ReconcileOpenAI ==
    {[ProviderConfig(k, FALSE, Nil) EXCEPT !.Models = ms] :
        k \in {KeyNone, KeyLiteral, KeyRefU}, ms \in UserModelLists}

ReconcileAnthropic ==
    {[ProviderConfig(KeyLiteral, FALSE, Nil) EXCEPT !.Models = ms] :
        ms \in {<<>>, <<CatwalkModel("claude-opus", "mine")>>,
                <<CatwalkModel("claude-haiku", "mine"),
                  CatwalkModel("claude-next", "Next")>>}}

ReconcileLocal ==
    {[ProviderConfig(KeyNone, FALSE, Nil) EXCEPT
        !.Type = TypeOpenAICompat, !.BaseURL = <<"l">>, !.Models = ms] :
        ms \in {<<>>, <<CatwalkModel("llama", "Llama")>>}}

\* A metadata list, as a local file given to UpdateProviders may hold it,
\* whose provider lists one model id twice.
RepeatingProviders ==
    <<CatwalkProvider("openai", "OpenAI", TypeOpenAI, <<"o">>, "gpt-4o", "",
                      <<CatwalkModel("gpt-4o", "GPT-4o"),
                        CatwalkModel("gpt-4o", "GPT-4o (new)")>>)>>

ReconcileFiles ==
    {File(EmptyMap, Overlay(Overlay(a, b), c), MissingOptions) :
        a \in OptMaps("openai", ReconcileOpenAI),
        b \in OptMaps("anthropic", ReconcileAnthropic),
        c \in OptMaps("local", ReconcileLocal)}

InitReconcile ==
    /\ TuiIdle
    /\ environ = Environ
    /\ globalFile = FileAbsent
    /\ projectFile \in ReconcileFiles
    /\ cacheFile = CacheAbsent
    /\ dataDirOK = TRUE
    /\ now = 0
    /\ pc = "merged"
    /\ \E known \in {EmbeddedProviders, RemoteProviders, OldProviders,
                    RepeatingProviders} :
         cfg = Some([applyDefaults(loadFile(projectFile, NewConfig).cfg)
                       EXCEPT !.knownProviders = known])
    /\ loadErr = NoError
    /\ savedFile = NoSavedFile
    /\ provResult = NoProvResult
    /\ builder = NoBuilder
    /\ built = NoBuilt
    /\ merge = NoMerge
    /\ resolver = NoResolver
    /\ resolved = NoResolved

\* configureProviders(cfg, resolver)
DoConfigureProviders ==
    /\ pc = "merged"
    /\ cfg' = Some(configureProviders(cfg[1], environ))
    /\ pc' = "reconciled"
    /\ UNCHANGED <<tuiVars, merge, resolver, resolved,
                   environ, globalFile, projectFile, cacheFile, dataDirOK, now,
                   loadErr, savedFile, provResult, builder, built>>

NextReconcile == DoConfigureProviders

SpecReconcile == InitReconcile /\ [][NextReconcile]_vars

\* The ids of a model list, and whether it gives no id twice.
ModelIDs(ms) == {ms[i].ID : i \in 1..Len(ms)}

NoRepeatedID(ms) == \A i, j \in 1..Len(ms) : ms[i].ID = ms[j].ID => i = j

\* The metadata models of the known provider with this id, if any.
MetaModels(known, id) ==
    LET hits == {i \in 1..Len(known) : known[i].ID = id}
    IN  IF hits = {} THEN <<>> ELSE known[CHOOSE i \in hits : TRUE].Models

----------------------------------------------------------------------------
(* Default tier selection, in the load session *)

\* The last load read its files and went on to the provider metadata.
FilesRead == (ByLoad \/ ByLoadFromFile) /\ provResult.op = "LoadProviders"

\* The metadata list the last load worked with.
Known == provResult.providers

\* The i-th known provider has an entry in the loaded Config that is
\* enabled and carries a non-empty key.
HasUsableEntry(i) ==
    /\ Known[i].ID \in DOMAIN cfg[1].Providers
    /\ ~cfg[1].Providers[Known[i].ID].Disable
    /\ cfg[1].Providers[Known[i].ID].APIKey # EmptyStr

DeclaresDefault(i) ==
    Known[i].DefaultLargeModelID # "" \/ Known[i].DefaultSmallModelID # ""

\* Config.Models holds exactly the default model ids the i-th known
\* provider declares, each under that provider.
TiersFrom(i) ==
    LET p == Known[i]
        ms == cfg[1].Models
    IN  /\ SelectedModelTypeLarge \in DOMAIN ms <=> p.DefaultLargeModelID # ""
        /\ SelectedModelTypeSmall \in DOMAIN ms <=> p.DefaultSmallModelID # ""
        /\ SelectedModelTypeLarge \in DOMAIN ms =>
              ms[SelectedModelTypeLarge]
                  = SelectedModel(p.DefaultLargeModelID, p.ID, FALSE)
        /\ SelectedModelTypeSmall \in DOMAIN ms =>
              ms[SelectedModelTypeSmall]
                  = SelectedModel(p.DefaultSmallModelID, p.ID, FALSE)

\* C17 as stated: when no tier is configured, a successful load has taken
\* its tiers from the first provider in metadata order that has an enabled
\* user entry with a non-empty resolved key, and from no later one.
C17_AsStated ==
    (LoadSucceeded /\ DOMAIN ReadModels = {}) =>
        \E i \in 1..Len(Known) :
            /\ HasUsableEntry(i)
            /\ \A j \in 1..(i - 1) : ~HasUsableEntry(j)
            /\ TiersFrom(i)

\* C17: when no tier is configured, a successful load has taken its tiers
\* from the first provider in metadata order that has an enabled user entry
\* with a non-empty resolved key and declares at least one default model
\* id; the tiers are exactly that provider's declared defaults.
C17_FirstProviderWithDefaults ==
    (LoadSucceeded /\ DOMAIN ReadModels = {}) =>
        \E i \in 1..Len(Known) :
            /\ HasUsableEntry(i) /\ DeclaresDefault(i)
            /\ \A j \in 1..(i - 1) : ~(HasUsableEntry(j) /\ DeclaresDefault(j))
            /\ TiersFrom(i)

\* Two providers had usable entries and declared defaults; the tiers name
\* the first of them only.
C17_Witness ==
    /\ LoadSucceeded
    /\ DOMAIN ReadModels = {}
    /\ Len(Known) = 2
    /\ HasUsableEntry(1) /\ DeclaresDefault(1)
    /\ HasUsableEntry(2) /\ DeclaresDefault(2)
    /\ TiersFrom(1)

\* The entry the files give for id is enabled and its key resolves to a
\* non-empty value.
UsableInFiles(id) ==
    /\ id \in DOMAIN ReadProviders
    /\ ~ReadProviders[id].Disable
    /\ Len(Resolve(environ, ReadProviders[id].APIKey).errs) = 0
    /\ Resolve(environ, ReadProviders[id].APIKey).val # EmptyStr

\* C18: when the files were read, configure no tier and give no
\* metadata-known provider an enabled entry with a non-empty resolved key,
\* the load fails with "no providers configured with valid API keys" and
\* returns no Config.
C18_NoValidProvidersFails ==
    (FilesRead /\ DOMAIN ReadModels = {} /\ \A id \in KnownIDs : ~UsableInFiles(id))
    => /\ loadErr = NoValidProviders
       /\ cfg = Nil

\* A Load that failed so although the files declare providers: a disabled
\* one, and one whose key names a variable set to the empty string.
C18_Witness ==
    /\ pc = "Load"
    /\ loadErr = NoValidProviders
    /\ DOMAIN ReadModels = {}
    /\ \A id \in KnownIDs : ~UsableInFiles(id)
    /\ \E id \in DOMAIN ReadProviders : ReadProviders[id].Disable
    /\ \E id \in DOMAIN ReadProviders : ReadProviders[id].APIKey = KeyRefE


----------------------------------------------------------------------------
(* A session that resolves values while the environment changes *)

\* The values given to Resolve: plain text, references in both forms to
\* set, empty and unset variables, repeated references, and text that
\* only looks like a reference.
ResolveInputs ==
    {EmptyStr, <<"k">>, KeyRefA, <<"$", "{", "A", "}">>, KeyRefU, KeyMixedU, KeyRefE,
     <<"$", "U", "-", "$", "A", "$", "{", "U", "}">>,
     <<"$", "{", "U", "}", "$", "E", "$", "s">>,
     <<"$", "1", "$", "{", "A">>}

\* The names and values os.Setenv is called with.
SetenvNames == {<<"A">>, <<"U">>}

SetenvValues == {<<"s">>, <<"k">>}

InitResolve ==
    /\ TuiIdle
    /\ environ = Environ
    /\ globalFile = FileAbsent
    /\ projectFile = FileAbsent
    /\ cacheFile = CacheAbsent
    /\ dataDirOK = TRUE
    /\ now = 0
    /\ pc = "resolve"
    /\ cfg = Nil
    /\ loadErr = NoError
    /\ savedFile = NoSavedFile
    /\ provResult = NoProvResult
    /\ builder = NoBuilder
    /\ built = NoBuilt
    /\ merge = NoMerge
    /\ resolver = NoResolver
    /\ resolved = NoResolved

ResolveFrame ==
    UNCHANGED <<tuiVars, globalFile, projectFile, cacheFile, dataDirOK, now, pc, cfg,
                loadErr, savedFile, provResult, builder, built, merge>>

\* resolver := NewResolver()
DoNewResolver ==
    /\ pc = "resolve"
    /\ resolver' = [made |-> TRUE, env |-> NewResolver(environ).env, first |-> Nil]
    /\ resolved' = NoResolved
    /\ UNCHANGED environ
    /\ ResolveFrame

\* resolver := NewResolverWithEnv(env), env a map of the caller
DoNewResolverWithEnv ==
    /\ pc = "resolve"
    /\ \E v \in SetenvValues :
         resolver' = [made |-> TRUE,
                      env |-> NewResolverWithEnv(<<"U">> :> v).env,
                      first |-> Nil]
    /\ resolved' = NoResolved
    /\ UNCHANGED environ
    /\ ResolveFrame

\* os.Setenv(name, value)
DoSetenv ==
    /\ pc = "resolve"
    /\ \E n \in SetenvNames, v \in SetenvValues :
         /\ ~(n \in DOMAIN environ /\ environ[n] = v)
         /\ environ' = Put(environ, n, v)
    /\ UNCHANGED <<resolver, resolved>>
    /\ ResolveFrame

\* os.Unsetenv(name)
DoUnsetenv ==
    /\ pc = "resolve"
    /\ \E n \in SetenvNames :
         /\ n \in DOMAIN environ
         /\ environ' = Delete(environ, n)
    /\ UNCHANGED <<resolver, resolved>>
    /\ ResolveFrame

\* val, err := resolver.Resolve(value)
DoResolve ==
    /\ pc = "resolve"
    /\ resolver.made
    /\ \E value \in ResolveInputs :
         LET r == ResolverResolve(resolver, environ, value)
             call == [called |-> TRUE, value |-> value,
                      val |-> r.val, errs |-> r.errs]
         IN  /\ resolved' = call
             /\ resolver' = IF resolver.first = Nil
                            THEN [resolver EXCEPT !.first = Some(call)]
                            ELSE resolver
    /\ UNCHANGED environ
    /\ ResolveFrame

NextResolve ==
    DoNewResolver \/ DoNewResolverWithEnv \/ DoSetenv \/ DoUnsetenv \/ DoResolve

SpecResolve == InitResolve /\ [][NextResolve]_vars

\* The names a value references: what varPattern matches in it.
ReferencedNames(value) ==
    {MatchAt(value, i).name : i \in {j \in 1..Len(value) : MatchAt(value, j).ok}}

\* The referenced names the Resolver's environment does not define.
UndefinedNames == ReferencedNames(resolved.value) \ DOMAIN resolver.env

\* C19 as stated: Resolve fails whenever a referenced name is undefined,
\* and its error lists every undefined name exactly once, however often
\* and in whichever form the name is referenced.
C19_EachUndefinedNameOnce ==
    (resolved.called /\ UndefinedNames # {}) =>
        /\ Len(resolved.errs) > 0
        /\ {resolved.errs[i] : i \in 1..Len(resolved.errs)} = UndefinedNames
        /\ \A i, j \in 1..Len(resolved.errs) :
              resolved.errs[i] = resolved.errs[j] => i = j

\* The part that holds: the call fails, returns the empty string, and
\* its error names all the undefined names and no other.
C19_FailsNamingAll ==
    (resolved.called /\ UndefinedNames # {}) =>
        /\ Len(resolved.errs) > 0
        /\ resolved.val = EmptyStr
        /\ {resolved.errs[i] : i \in 1..Len(resolved.errs)} = UndefinedNames

\* C20: what Resolve returns depends only on the environment captured when
\* the Resolver was made: whatever was set, changed or removed in the
\* process environment since, a Resolve returns what the first Resolve of
\* the same input on this Resolver returned, and what the captured
\* environment determines.
C20_ResolverIgnoresLaterChanges ==
    resolved.called =>
        /\ resolver.first # Nil
        /\ resolved.value = resolver.first[1].value =>
              /\ resolved.val = resolver.first[1].val
              /\ resolved.errs = resolver.first[1].errs
        /\ ReferencedNames(resolved.value) \subseteq DOMAIN resolver.env =>
              Len(resolved.errs) = 0
        /\ UndefinedNames # {} => Len(resolved.errs) > 0

\* The same input resolved again with success after the variable it names
\* was changed and another was removed from the process environment.
C20_Witness ==
    /\ resolved.called
    /\ resolver.first # Nil
    /\ resolved.value = KeyRefA
    /\ resolver.first[1].value = KeyRefA
    /\ resolved.val = <<"s">>
    /\ <<"A">> \in DOMAIN environ /\ environ[<<"A">>] = <<"k">>
    /\ resolver.env # environ

----------------------------------------------------------------------------
(* A wizard session: keys pressed, commands run and messages delivered *)

\* The OAuth2Flow one session makes and the length of the text typed as an
\* API key are bounded.
MaxFlows == 2

MaxInput == 1

\* The commands that take time, and the messages they return.  Every other
\* message is made by util.CmdHandler, whose command returns at once: it
\* is delivered before the next key is read.
SlowTypes ==
    {"validateCode", "OAuthValidationCompletedMsg", "saveConfig", "CompleteMsg",
     "InfoMsg"}

\* The characters typed into the API key input.
TypedChars == {"k", " "}

\* The keys the component of a step acts on, and Esc.
WizardKeys(step) ==
    CASE step = StepProvider -> {keyEsc, keyEnter, keyUp, keyDown}
      [] step = StepAuthMethod -> {keyEsc, keyEnter, keyTab}
      [] step = StepOAuth -> {keyEsc, keyEnter}
      [] step = StepAPIKey -> {keyEsc, keyEnter} \cup TypedChars
      [] OTHER -> {keyEsc, keyEnter}

\* The provider list LoadProviders hands to the wizard: Anthropic and
\* another provider, with one model each.
WizardProviders == <<MetaAnthropicLargeOnly, MetaOpenAINoDefaults>>

\* What the token endpoint may answer.
ExchangeOutcomes == {ExchangeFailed, ExchangeEmpty, ExchangeOK(WizardToken)}

InitWizard ==
    /\ environ = Environ
    /\ globalFile = FileAbsent
    /\ projectFile = FileAbsent
    /\ cacheFile = CacheAbsent
    /\ dataDirOK = TRUE
    /\ now = 0
    /\ pc = "wizard"
    /\ cfg = Nil
    /\ loadErr = NoError
    /\ savedFile = NoSavedFile
    /\ provResult = NoProvResult
    /\ builder = NoBuilder
    /\ built = NoBuilt
    /\ merge = NoMerge
    /\ resolver = NoResolver
    /\ resolved = NoResolved
    /\ wizard = NewWizard(WizardProviders)
    /\ inflight = {}
    /\ wlog = NoLog
    /\ issuedToken = NoToken
    /\ fsys = NoFsys
    /\ found = Nil

WizardFrame ==
    UNCHANGED <<environ, globalFile, projectFile, cacheFile, dataDirOK, now,
                pc, cfg, loadErr, provResult, builder, built, merge, resolver,
                resolved, issuedToken, fsys, found>>

\* The program runs: no panic has ended it.
WizardRuns == pc = "wizard" /\ ~wizard.panicked

\* The credential the user gave last, msg being handled at step.
credAfter(cred, msg, step) ==
    CASE msg.type = "APIKeyEnteredMsg" /\ step = StepAPIKey ->
            Some([method |-> AuthMethodAPIKey, apiKey |-> msg.APIKey, token |-> Nil])
      [] msg.type = "OAuthCompleteMsg" /\ step = StepOAuth ->
            Some([method |-> AuthMethodOAuth2, apiKey |-> EmptyStr,
                  token |-> msg.Token])
      [] OTHER -> cred

\* One turn of the event loop on msg, r being what Wizard.Update returned
\* and rest what stays in flight: the commands are started and the view is
\* rendered.
Handled(r, msg, kind, rest) ==
    /\ r.m.oauthFlow # Nil => r.m.oauthFlow[1].id <= MaxFlows
    /\ wizard' = View(r.m)
    /\ inflight' = rest \cup r.cmds
    /\ wlog' = [wlog EXCEPT
                  !.flows = IF r.m.oauthFlow # Nil /\ r.m.oauthFlow[1].id > @
                            THEN r.m.oauthFlow[1].id
                            ELSE @,
                  !.event = [kind |-> kind, msg |-> msg, step |-> wizard.step],
                  !.cred = credAfter(@, msg, wizard.step)]
    /\ UNCHANGED savedFile
    /\ WizardFrame

\* The user presses a key while the wizard is on the screen.
DoKey ==
    /\ WizardRuns
    /\ wizard.step # StepComplete
    /\ \A m \in inflight : m.type \in SlowTypes
    /\ \E k \in WizardKeys(wizard.step) :
         /\ k \in TypedChars => Len(wizard.apiKeyInput[1].value) < MaxInput
         /\ Handled(WizardUpdate(wizard, KeyMsg(k), wlog.flows + 1), KeyMsg(k),
                    "key", inflight)

\* A message a command returned reaches Wizard.Update.
DoDeliver ==
    /\ WizardRuns
    /\ \E msg \in inflight :
         /\ msg.type \notin {"validateCode", "saveConfig", "CompleteMsg", "InfoMsg"}
         /\ Handled(WizardUpdate(wizard, msg, wlog.flows + 1), msg, "deliver",
                    inflight \ {msg})

\* o.validateCode returns: the exchange with the token endpoint is over.
DoValidateCode ==
    /\ WizardRuns
    /\ \E cmd \in inflight :
         /\ cmd.type = "validateCode"
         /\ \E x \in ExchangeOutcomes :
              /\ inflight' = (inflight \ {cmd}) \cup {validateCode(cmd.flow, x)}
              /\ wlog' = [wlog EXCEPT
                            !.event = [kind |-> "exchange", msg |-> cmd,
                                       step |-> wizard.step, outcome |-> x]]
    /\ UNCHANGED <<wizard, savedFile>>
    /\ WizardFrame

\* The closure of saveConfig runs and writes the global file.
DoSaveConfig ==
    /\ WizardRuns
    /\ saveConfigCmd \in inflight
    /\ \E writable \in BOOLEAN :
         /\ savedFile' = saveConfig(wizard, savedFile, writable).file
         /\ inflight' = (inflight \ {saveConfigCmd})
                          \cup {saveConfigMsg(wizard,
                                              saveConfig(wizard, savedFile, writable).err)}
    /\ wlog' = [wlog EXCEPT
                  !.event = [kind |-> "save", msg |-> saveConfigCmd,
                             step |-> wizard.step]]
    /\ UNCHANGED wizard
    /\ WizardFrame

\* Model.Update of the interface takes CompleteMsg and InfoMsg itself.
DoStatus ==
    /\ WizardRuns
    /\ \E msg \in inflight :
         /\ msg.type \in {"CompleteMsg", "InfoMsg"}
         /\ inflight' = inflight \ {msg}
         /\ wlog' = [wlog EXCEPT
                       !.status = IF msg.type = "CompleteMsg"
                                  THEN "Configuration saved successfully!"
                                  ELSE msg.Msg,
                       !.event = [kind |-> "status", msg |-> msg,
                                  step |-> wizard.step]]
    /\ UNCHANGED <<wizard, savedFile>>
    /\ WizardFrame

NextWizard == DoKey \/ DoDeliver \/ DoValidateCode \/ DoSaveConfig \/ DoStatus

SpecWizard == InitWizard /\ [][NextWizard]_vars

----------------------------------------------------------------------------
(* Properties of a wizard session *)

\* The event loop has just handed a validation result to the OAuth2Flow of
\* the wizard.
ValidationApplied ==
    /\ wlog.event.kind = "deliver"
    /\ wlog.event.msg.type = "OAuthValidationCompletedMsg"
    /\ wlog.event.step = StepOAuth

\* The user has just pressed Enter.
ConfirmPressed == wlog.event.kind = "key" /\ wlog.event.msg.key = keyEnter

\* The step leaves the wizard with the same OAuth2Flow.
SameFlow ==
    /\ wizard.oauthFlow # Nil
    /\ wizard'.oauthFlow # Nil
    /\ wizard'.oauthFlow[1].id = wizard.oauthFlow[1].id

\* The step makes a new OAuth2Flow.
FlowMade ==
    /\ wizard'.oauthFlow # Nil
    /\ wizard.oauthFlow = Nil \/ wizard.oauthFlow[1].id # wizard'.oauthFlow[1].id

\* One step of a flow, as C21 wants it.
C21_FlowStep ==
    /\ FlowMade => wizard'.oauthFlow[1].state = OAuthStateURL
    /\ (SameFlow /\ wizard.oauthFlow[1].state = OAuthStateURL) =>
         /\ wizard'.oauthFlow[1].state # OAuthStateURL =>
              /\ wizard'.oauthFlow[1].state = OAuthStateCode
              /\ ConfirmPressed'
         /\ validateCodeCmd(wizard.oauthFlow[1].id) \in inflight' =>
              validateCodeCmd(wizard.oauthFlow[1].id) \in inflight
    /\ (SameFlow /\ wizard.oauthFlow[1].state = OAuthStateCode) =>
         /\ wizard'.oauthFlow[1].state = OAuthStateCode
         /\ ValidationApplied' =>
              \/ /\ wizard'.oauthFlow[1].validationState = OAuthValidationStateValid
                 /\ wizard'.oauthFlow[1].token # Nil
              \/ wizard'.oauthFlow[1].validationState = OAuthValidationStateError

\* C21: an OAuth flow starts in state URL; it leaves URL only for Code and
\* only on confirm; no token exchange is started while it is in URL; once
\* in Code it never returns to URL, and every result it then takes is a
\* success with a token or an error, the flow still in Code.
C21_URLThenCode == [][C21_FlowStep]_vars

\* A flow in Code that has taken a successful result.
C21_Witness ==
    /\ ValidationApplied
    /\ wizard.oauthFlow # Nil
    /\ wizard.oauthFlow[1].state = OAuthStateCode
    /\ wizard.oauthFlow[1].validationState = OAuthValidationStateValid
    /\ wizard.oauthFlow[1].token # Nil

\* The result of a failed exchange has just reached the flow that started
\* the exchange.
FailureApplied ==
    /\ ValidationApplied
    /\ wlog.event.msg.State = OAuthValidationStateError
    /\ wizard.oauthFlow # Nil
    /\ wlog.event.msg.flow = wizard.oauthFlow[1].id

\* One step, as C22 wants it.
C22_FailureStep ==
    /\ (/\ wlog'.event.kind = "exchange"
        /\ wlog'.event.outcome.err \/ wlog'.event.outcome.token = Nil) =>
         OAuthValidationCompletedMsg(OAuthValidationStateError, Nil,
                                     wlog'.event.msg.flow) \in inflight'
    /\ FailureApplied' =>
         /\ wizard'.step = StepOAuth
         /\ ~wizard'.panicked
         /\ wizard'.oauthFlow[1].state = OAuthStateCode
         /\ wizard'.oauthFlow[1].validationState = OAuthValidationStateError
         /\ wizard'.oauthFlow[1].token = Nil
    /\ (/\ wizard.step = StepOAuth
        /\ wizard.oauthFlow # Nil
        /\ wizard.oauthFlow[1].state = OAuthStateCode
        /\ wizard.oauthFlow[1].validationState = OAuthValidationStateError
        /\ ConfirmPressed') =>
         /\ validateCodeCmd(wizard.oauthFlow[1].id) \in inflight'
         /\ wizard'.oauthFlow[1].validationState = OAuthValidationStateVerifying

C26_SavedCredentialIsLastChosen ==
    (savedFile.state = "ok" /\ wlog.cred # Nil) =>
        \A id \in DOMAIN savedFile.doc.Providers :
            IF wlog.cred[1].method = AuthMethodAPIKey
            THEN /\ savedFile.doc.Providers[id].APIKey = wlog.cred[1].apiKey
                 /\ savedFile.doc.Providers[id].OAuthToken = Nil
            ELSE savedFile.doc.Providers[id].OAuthToken = wlog.cred[1].token

\* The save of the wizard's result has failed: its error message is on its
\* way to the interface or shown in the status line.
SaveFailed ==
    \/ InfoMsg("Failed to save config") \in inflight
    \/ wlog.status = "Failed to save config"

\* C31: when SaveWizardResult or SaveWizardResultWithOAuth has failed the
\* wizard is not in step Complete, so IsComplete is false and the success
\* summary is not rendered.
C31_CompleteOnlyIfSaved == SaveFailed => wizard.step # StepComplete

\* The step is an Enter handled by the OAuth2Flow of the wizard.
ConfirmOnFlow ==
    /\ ConfirmPressed'
    /\ wizard.step = StepOAuth
    /\ SameFlow

\* One step, as C33 wants it.
C33_ExchangeStep ==
    /\ \A id \in 1..MaxFlows :
          (validateCodeCmd(id) \in inflight' /\ validateCodeCmd(id) \notin inflight) =>
              /\ ConfirmOnFlow
              /\ wizard.oauthFlow[1].id = id
              /\ wizard.oauthFlow[1].state = OAuthStateCode
              /\ wizard.oauthFlow[1].validationState \in
                    {OAuthValidationStateNone, OAuthValidationStateError}
    /\ (/\ ConfirmOnFlow
        /\ wizard.oauthFlow[1].validationState = OAuthValidationStateVerifying) =>
          /\ wizard'.oauthFlow = wizard.oauthFlow
          /\ inflight' = inflight
    /\ (ConfirmOnFlow /\ validateCodeCmd(wizard.oauthFlow[1].id) \in inflight) =>
          wizard'.oauthFlow = wizard.oauthFlow

\* C33: every exchange is started by a confirm on a flow in Code with
\* validation state None or Error; a confirm on a flow that is Verifying
\* starts nothing; and no confirm starts an exchange for a flow whose
\* exchange is still running.
C33_OneExchangePerFlow == [][C33_ExchangeStep]_vars

\* A valid flow holds a token.
ValidHasToken ==
    (wizard.oauthFlow # Nil
        /\ wizard.oauthFlow[1].validationState = OAuthValidationStateValid) =>
        wizard.oauthFlow[1].token # Nil

\* A step that emits OAuthCompleteMsg is an Enter on a valid flow, and the
\* message carries the token of that flow.
C34_CompleteStep ==
    \A tok \in {Nil, Some(WizardToken)} :
        (OAuthCompleteMsg(tok) \in inflight' /\ OAuthCompleteMsg(tok) \notin inflight) =>
            /\ ConfirmPressed'
            /\ wizard.step = StepOAuth
            /\ wizard.oauthFlow # Nil
            /\ wizard.oauthFlow[1].state = OAuthStateCode
            /\ wizard.oauthFlow[1].validationState = OAuthValidationStateValid
            /\ tok = wizard.oauthFlow[1].token
            /\ tok # Nil

\* C34: a flow in validation state Valid holds a non-nil token, and
\* OAuthCompleteMsg is emitted only by a confirm made in validation state
\* Valid and carries exactly the token of that flow.
C34_ValidFlowCompletesWithToken == []ValidHasToken /\ [][C34_CompleteStep]_vars

\* The only flow of the session has been confirmed while valid: its
\* OAuthCompleteMsg is on its way with the token its own exchange returned.
C34_Witness ==
    /\ wlog.flows = 1
    /\ ConfirmPressed
    /\ wlog.event.step = StepOAuth
    /\ wizard.oauthFlow # Nil
    /\ wizard.oauthFlow[1].validationState = OAuthValidationStateValid
    /\ OAuthCompleteMsg(Some(WizardToken)) \in inflight

\* The user has just pressed Esc.
EscPressed == wlog.event.kind = "key" /\ wlog.event.msg.key = keyEsc

\* The step the large model list was entered from: that of the credential
\* given last.
EnteredFrom ==
    IF wlog.cred # Nil /\ wlog.cred[1].method = AuthMethodOAuth2
    THEN StepOAuth
    ELSE StepAPIKey

\* The step before s on the path taken.
StepBefore(s) ==
    CASE s = StepAuthMethod -> StepProvider
      [] s = StepOAuth -> StepAuthMethod
      [] s = StepAPIKey ->
            IF wizard.selectedProvider[1].ID = InferenceProviderAnthropic
            THEN StepAuthMethod
            ELSE StepProvider
      [] s = StepLargeModel -> EnteredFrom
      [] s = StepSmallModel -> StepLargeModel
      [] OTHER -> s

C35_EscStep == EscPressed' => wizard'.step = StepBefore(wizard.step)

\* C35: Esc moves the wizard back exactly one step along the path taken,
\* from the large model list to the credential step it was entered from,
\* and has no effect at the provider list.
C35_EscGoesBackOneStep == [][C35_EscStep]_vars

\* The step hands a message of that type to Wizard.Update.
Delivers(type) == wlog'.event.kind = "deliver" /\ wlog'.event.msg.type = type

\* The step hands the wizard a credential: an OAuth token or a non-empty
\* API key.
DeliversCredential ==
    \/ /\ wizard.step = StepOAuth
       /\ Delivers("OAuthCompleteMsg")
       /\ wlog'.event.msg.Token # Nil
    \/ /\ wizard.step = StepAPIKey
       /\ Delivers("APIKeyEnteredMsg")
       /\ wlog'.event.msg.APIKey # EmptyStr

\* What the wizard holds once a credential was given.
HasCredential == wizard.oauthToken # Nil \/ wizard.apiKey # EmptyStr

\* The ways into each step.
C36_Step ==
    /\ wizard.step = StepComplete => wizard'.step = StepComplete
    /\ (wizard'.step = StepComplete /\ wizard.step # StepComplete) =>
          /\ wizard.step = StepSmallModel
          /\ Delivers("ModelSelectedMsg")
          /\ wizard'.selectedSmall = Some(wlog'.event.msg.Model)
    /\ (wizard'.step = StepSmallModel /\ wizard.step # StepSmallModel) =>
          /\ wizard.step = StepLargeModel
          /\ Delivers("ModelSelectedMsg")
          /\ wizard'.selectedLarge = Some(wlog'.event.msg.Model)
    /\ (wizard'.step = StepLargeModel /\ wizard.step # StepLargeModel) =>
          \/ DeliversCredential
          \/ wizard.step = StepSmallModel /\ EscPressed'
    /\ (wizard'.step \in {StepOAuth, StepAPIKey} /\ wizard.step # wizard'.step) =>
          \/ wizard.step = StepLargeModel /\ EscPressed'
          \/ /\ wizard.step = StepAuthMethod
             /\ Delivers("AuthMethodSelectedMsg")
          \/ /\ wizard.step = StepProvider
             /\ wizard'.step = StepAPIKey
             /\ Delivers("ProviderSelectedMsg")
             /\ wlog'.event.msg.Provider.ID # InferenceProviderAnthropic
    /\ (wizard'.step = StepAuthMethod /\ wizard.step # StepAuthMethod) =>
          \/ wizard.step \in {StepOAuth, StepAPIKey} /\ EscPressed'
          \/ /\ wizard.step = StepProvider
             /\ Delivers("ProviderSelectedMsg")
             /\ wlog'.event.msg.Provider.ID = InferenceProviderAnthropic
    /\ (wizard.step = StepProvider /\ Delivers("ProviderSelectedMsg")) =>
          /\ wizard'.selectedProvider = Some(wlog'.event.msg.Provider)
          /\ wizard'.step = IF wlog'.event.msg.Provider.ID = InferenceProviderAnthropic
                            THEN StepAuthMethod
                            ELSE StepAPIKey

\* What holds at each step because of the ways into it.
C36_Reached ==
    /\ wizard.step # StepProvider => wizard.selectedProvider # Nil
    /\ wizard.step = StepAuthMethod =>
          wizard.selectedProvider[1].ID = InferenceProviderAnthropic
    /\ wizard.step \in {StepLargeModel, StepSmallModel, StepComplete} => HasCredential
    /\ wizard.step \in {StepSmallModel, StepComplete} => wizard.selectedLarge # Nil
    /\ wizard.step = StepComplete => wizard.selectedSmall # Nil

\* C36: step Complete is reached only from the small model list by a
\* selection, that list only from the large model list by a selection, the
\* large model list only by a credential (a token or a non-empty API key),
\* and the credential steps only after a provider was selected; the
\* auth-method step occurs only for Anthropic, every other provider going
\* from selection to API-key entry; Complete is never left.
C36_CompleteAfterAllSteps == []C36_Reached /\ [][C36_Step]_vars

\* The wizard is complete for a provider other than Anthropic, the small
\* model having just been selected.
C36_Witness ==
    /\ wizard.step = StepComplete
    /\ wizard.selectedProvider[1].ID # InferenceProviderAnthropic
    /\ wlog.event.kind = "deliver"
    /\ wlog.event.msg.type = "ModelSelectedMsg"
    /\ wlog.event.step = StepSmallModel

\* C27: the sub-component of the wizard's current step is never nil.
C27_StepComponentNotNil == stepComponent(wizard) # Nil

\* C28: a validation result is only ever taken by the OAuth2Flow whose
\* validateCode produced it.
C28_ResultReachesItsOwnFlow ==
    ValidationApplied =>
        /\ wizard.oauthFlow # Nil
        /\ wlog.event.msg.flow = wizard.oauthFlow[1].id

----------------------------------------------------------------------------
(* A session that holds an OAuth token while time passes *)

\* The seconds the clock may reach.
MaxClock == 30

\* The expires_in of the tokens: none, below ten seconds, multiples of ten
\* and not.
TokenLifetimes == {0, 1, 9, 10, 15, 20}

InitToken ==
    /\ environ = Environ
    /\ globalFile = FileAbsent
    /\ projectFile = FileAbsent
    /\ cacheFile = CacheAbsent
    /\ dataDirOK = TRUE
    /\ now = 0
    /\ pc = "token"
    /\ cfg = Nil
    /\ loadErr = NoError
    /\ savedFile = NoSavedFile
    /\ provResult = NoProvResult
    /\ builder = NoBuilder
    /\ built = NoBuilt
    /\ merge = NoMerge
    /\ resolver = NoResolver
    /\ resolved = NoResolved
    /\ wizard = NoWizard
    /\ inflight = {}
    /\ wlog = NoLog
    /\ issuedToken = NoToken
    /\ fsys = NoFsys
    /\ found = Nil

TokenFrame ==
    UNCHANGED <<environ, globalFile, projectFile, cacheFile, dataDirOK, pc,
                cfg, loadErr, savedFile, provResult, builder, built, merge,
                resolver, resolved, wizard, inflight, wlog, fsys, found>>

\* The exchange returns a token and the caller stamps it: SetExpiresAt.
DoSetExpiresAt ==
    /\ pc = "token"
    /\ ~issuedToken.issued
    /\ \E e \in TokenLifetimes :
         issuedToken' =
            [SetExpiresAt([issuedToken EXCEPT !.ExpiresIn = e], now)
                EXCEPT !.issued = TRUE, !.setAt = Some(now), !.expired = Nil]
    /\ UNCHANGED now
    /\ TokenFrame

\* A token comes with both fields set, as one read back from the
\* configuration file does.
DoReadToken ==
    /\ pc = "token"
    /\ ~issuedToken.issued
    /\ \E e \in TokenLifetimes, at \in 0..MaxClock :
         issuedToken' = [ExpiresIn |-> e, ExpiresAt |-> at, issued |-> TRUE,
                         setAt |-> Nil, expired |-> Nil]
    /\ UNCHANGED now
    /\ TokenFrame

\* token.IsExpired() is asked.
DoIsExpired ==
    /\ pc = "token"
    /\ issuedToken.issued
    /\ issuedToken' =
          [issuedToken EXCEPT !.expired = Some(IsExpired(issuedToken, now))]
    /\ UNCHANGED now
    /\ TokenFrame

\* A second passes.
TickClock ==
    /\ pc = "token"
    /\ now < MaxClock
    /\ now' = now + 1
    /\ issuedToken' = [issuedToken EXCEPT !.expired = Nil]
    /\ TokenFrame

NextToken == DoSetExpiresAt \/ DoReadToken \/ DoIsExpired \/ TickClock

SpecToken == InitToken /\ [][NextToken]_vars

\* C23: IsExpired answers true exactly when the time left until ExpiresAt
\* is a tenth of ExpiresIn or less; so a token with a positive ExpiresIn is
\* not expired at the time of its SetExpiresAt, and a token with ExpiresIn
\* 0 is expired exactly from ExpiresAt on.
C23_ExpiredWithinTenth ==
    issuedToken.expired # Nil =>
        /\ issuedToken.expired[1] <=>
              (10 * (issuedToken.ExpiresAt - now) <= issuedToken.ExpiresIn)
        /\ (issuedToken.ExpiresIn > 0 /\ issuedToken.setAt = Some(now)) =>
              ~issuedToken.expired[1]
        /\ issuedToken.ExpiresIn = 0 =>
              (issuedToken.expired[1] <=> now >= issuedToken.ExpiresAt)

\* A token stamped by SetExpiresAt is found expired exactly at the
\* threshold, before ExpiresAt.
C23_Witness ==
    /\ issuedToken.expired = Some(TRUE)
    /\ issuedToken.setAt # Nil
    /\ issuedToken.ExpiresIn > 0
    /\ 10 * (issuedToken.ExpiresAt - now) = issuedToken.ExpiresIn

----------------------------------------------------------------------------
(* A session that looks for the project configuration file *)

\* The working directories: the root, a directory below it and one below
\* that; none when os.Getwd fails.
WorkingDirs == {<<>>, <<"a">>, <<"a", "b">>}

\* The files that may exist: either name in each directory of the path, and
\* one in a directory beside the path.
CandidateFiles ==
    {Join(d, n) : d \in WorkingDirs, n \in {configFileName, hiddenFileName}}
    \cup {<<"c", configFileName>>}

InitFind ==
    /\ environ = Environ
    /\ globalFile = FileAbsent
    /\ projectFile = FileAbsent
    /\ cacheFile = CacheAbsent
    /\ dataDirOK = TRUE
    /\ now = 0
    /\ pc = "find"
    /\ cfg = Nil
    /\ loadErr = NoError
    /\ savedFile = NoSavedFile
    /\ provResult = NoProvResult
    /\ builder = NoBuilder
    /\ built = NoBuilt
    /\ merge = NoMerge
    /\ resolver = NoResolver
    /\ resolved = NoResolved
    /\ wizard = NoWizard
    /\ inflight = {}
    /\ wlog = NoLog
    /\ issuedToken = NoToken
    /\ fsys \in [cwd : {Nil} \cup {Some(d) : d \in WorkingDirs},
                 files : SUBSET CandidateFiles]
    /\ found = Nil

FindFrame ==
    UNCHANGED <<environ, globalFile, projectFile, cacheFile, dataDirOK, now,
                pc, cfg, loadErr, savedFile, provResult, builder, built,
                merge, resolver, resolved, wizard, inflight, wlog,
                issuedToken>>

\* findProjectConfig() is called.
DoFindProjectConfig ==
    /\ pc = "find"
    /\ found = Nil
    /\ found' = Some(findProjectConfig(fsys))
    /\ UNCHANGED fsys
    /\ FindFrame

\* The process changes its working directory; the next search starts
\* there.
DoChdir ==
    /\ pc = "find"
    /\ found # Nil
    /\ \E d \in WorkingDirs :
         /\ Some(d) # fsys.cwd
         /\ fsys' = [fsys EXCEPT !.cwd = Some(d)]
    /\ found' = Nil
    /\ FindFrame

NextFind == DoFindProjectConfig \/ DoChdir

SpecFind == InitFind /\ [][NextFind]_vars

\* The directories from dir up to the root.
Ancestors(dir) == {SubSeq(dir, 1, k) : k \in 0..Len(dir)}

\* The directories on the path from dir to the root that hold a
\* configuration file under either name.
Holders(files, dir) ==
    {d \in Ancestors(dir) :
        Join(d, configFileName) \in files \/ Join(d, hiddenFileName) \in files}

\* The directory of ds nearest to the working directory.
Nearest(ds) == CHOOSE d \in ds : \A e \in ds : Len(e) <= Len(d)

\* The file of directory d: the visible name when it is there.
FileOf(files, d) ==
    IF Join(d, configFileName) \in files
    THEN Join(d, configFileName)
    ELSE Join(d, hiddenFileName)

\* C25: findProjectConfig returns the file of the nearest directory, from
\* the working directory up to the root, that holds matrix.json or
\* .matrix.json, the visible name first; it returns the empty string when
\* no directory on that path holds one.
C25_NearestConfigVisibleFirst ==
    (found # Nil /\ fsys.cwd # Nil) =>
        IF Holders(fsys.files, fsys.cwd[1]) = {}
        THEN found[1] = <<>>
        ELSE found[1] = FileOf(fsys.files, Nearest(Holders(fsys.files, fsys.cwd[1])))

\* A search from a/b that passes the empty a/b and returns a/matrix.json,
\* a holding both names and the root a file too.
C25_Witness ==
    /\ fsys.cwd = Some(<<"a", "b">>)
    /\ found = Some(<<"a", configFileName>>)
    /\ <<"a", hiddenFileName>> \in fsys.files
    /\ <<configFileName>> \in fsys.files

\* A search that ends at the root with nothing found, a file lying beside
\* the path.
C25_WitnessNone ==
    /\ fsys.cwd = Some(<<"a", "b">>)
    /\ found = Some(<<>>)
    /\ fsys.files = {<<"c", configFileName>>}

----------------------------------------------------------------------------
(* A first run: the wizard's OAuth path saves, the next start loads and
   builds *)

\* The tokens an exchange may return: a bare access token, and one whose
\* text starts with "Bearer ".
SessionTokens == {WizardToken, [WizardToken EXCEPT !.AccessToken = BearerKey]}

\* The models the wizard offers for Anthropic.
SessionModels == {"claude-opus", "claude-haiku"}

\* The written file as loadFile reads it back: json.Unmarshal of the
\* SaveConfig document into a Config.  A provider entry has "api_key" and
\* "oauth" only, so every other field is zero; "options" is written
\* whenever Options is not nil.
SavedAsFile(file) ==
    IF file.state # "ok"
    THEN FileAbsent
    ELSE File(file.doc.Models,
              [id \in DOMAIN file.doc.Providers |->
                  ProviderConfig(file.doc.Providers[id].APIKey, FALSE,
                                 file.doc.Providers[id].OAuthToken)],
              IF file.doc.Options = Nil
              THEN MissingOptions
              ELSE [kind |-> "object", val |-> file.doc.Options[1]])

InitSession ==
    /\ environ = Environ
    /\ globalFile = FileAbsent
    /\ projectFile = FileAbsent
    /\ cacheFile = CacheAbsent
    /\ dataDirOK \in BOOLEAN
    /\ now = 0
    /\ pc = "first-run"
    /\ cfg = Nil
    /\ loadErr = NoError
    /\ savedFile = NoSavedFile
    /\ provResult = NoProvResult
    /\ builder = NoBuilder
    /\ built = NoBuilt
    /\ merge = NoMerge
    /\ resolver = NoResolver
    /\ resolved = NoResolved
    /\ TuiIdle

\* The wizard ends on its OAuth path: SaveWizardResultWithOAuth writes the
\* global configuration file.
DoSaveWizardResultWithOAuth ==
    /\ pc = "first-run"
    /\ \E tok \in SessionTokens, lm \in SessionModels, sm \in SessionModels,
          writable \in BOOLEAN :
         /\ savedFile' =
               SaveWizardResultWithOAuth(InferenceProviderAnthropic, tok, lm, sm,
                                         savedFile, writable).file
         /\ globalFile' =
               SavedAsFile(SaveWizardResultWithOAuth(InferenceProviderAnthropic,
                                                     tok, lm, sm, savedFile,
                                                     writable).file)
    /\ pc' = "saved"
    /\ UNCHANGED <<tuiVars, merge, resolver, resolved, environ, projectFile,
                   cacheFile, dataDirOK, now, cfg, loadErr, provResult,
                   builder, built>>

\* What the user may have typed as the API key: a key, or a reference to
\* an environment variable that is set or is not.
SessionKeys == {KeyLiteral, KeyRefA, KeyRefU}

\* The models the wizard offers for OpenAI.
SessionOpenAIModels == {"gpt-4o", "gpt-4o-mini"}

\* The wizard ends on its API-key path: SaveWizardResult writes the global
\* configuration file.
DoSaveWizardResult ==
    /\ pc = "first-run"
    /\ \E key \in SessionKeys, lm \in SessionOpenAIModels,
          sm \in SessionOpenAIModels, writable \in BOOLEAN :
         /\ savedFile' =
               SaveWizardResult("openai", key, lm, sm, savedFile, writable).file
         /\ globalFile' =
               SavedAsFile(SaveWizardResult("openai", key, lm, sm, savedFile,
                                            writable).file)
    /\ pc' = "saved"
    /\ UNCHANGED <<tuiVars, merge, resolver, resolved, environ, projectFile,
                   cacheFile, dataDirOK, now, cfg, loadErr, provResult,
                   builder, built>>

\* The next start: cfg, err := Load()
DoLoadSaved ==
    /\ pc = "saved"
    /\ \E fetchOK \in BOOLEAN :
         LET r == Load(environ, globalFile, projectFile, fetchOK, cacheFile,
                       dataDirOK, now)
         IN  \E e \in r.errs : Loaded(r, e, "loaded", fetchOK)

\* builder := NewBuilder(cfg) on the loaded Config.
DoStartBuilder ==
    /\ pc = "loaded"
    /\ cfg # Nil
    /\ builder' = NewBuilder(cfg[1])
    /\ pc' = "builder"
    /\ UNCHANGED <<tuiVars, merge, resolver, resolved, environ, globalFile,
                   projectFile, cacheFile, dataDirOK, now, cfg, loadErr,
                   savedFile, provResult, built>>

NextSession ==
    \/ DoSaveWizardResultWithOAuth
    \/ DoSaveWizardResult
    \/ DoLoadSaved
    \/ DoStartBuilder
    \/ DoBuildModels
    \/ DoNewBuilder

SpecSession == InitSession /\ [][NextSession]_vars

\* The wizard's save has written the file and the next start has loaded.
LoadedAfterWizard == pc \in {"loaded", "builder"} /\ savedFile.state = "ok"

\* The provider the wizard saved.
SavedProvider == savedFile.doc.Models[SelectedModelTypeLarge].Provider

\* C39: a configuration written by a completed wizard is accepted by the
\* loader: the Load that follows succeeds, keeps the saved provider and
\* yields large and small tiers naming that provider with the models
\* selected.
C39_WizardConfigLoads ==
    LoadedAfterWizard =>
        /\ cfg # Nil
        /\ SavedProvider \in DOMAIN cfg[1].Providers
        /\ \A t \in {SelectedModelTypeLarge, SelectedModelTypeSmall} :
              /\ t \in DOMAIN cfg[1].Models
              /\ cfg[1].Models[t] = savedFile.doc.Models[t]
              /\ cfg[1].Models[t].Provider = SavedProvider

\* The access token SaveWizardResultWithOAuth was given.
SavedAccessToken ==
    savedFile.doc.Providers[InferenceProviderAnthropic].OAuthToken[1].AccessToken

\* The client carries the saved access token in its Authorization header
\* and has no API key.
PresentsBearer(c) ==
    /\ c.kind = "anthropic"
    /\ c.apiKey = Nil
    /\ c.headers # Nil
    /\ "Authorization" \in DOMAIN c.headers[1]
    /\ c.headers[1]["Authorization"] \in
          {SavedAccessToken, BearerPrefix \o SavedAccessToken}

\* C30: after SaveWizardResultWithOAuth, a Load and a BuildModels, the
\* client of each built model carries the access token in an Authorization
\* header and is given no API key.
C30_OAuthCredentialIsBearer ==
    (pc = "builder" /\ savedFile.state = "ok" /\ BuildSucceeded) =>
        \A m \in {built.large, built.small} : PresentsBearer(ClientOf(m))

----------------------------------------------------------------------------
(* A wizard session whose key presses race with the messages of its
   commands *)

\* The most messages and commands waiting at one time.
MaxQueue == 2

\* The providers the wizard offers here: one, with two models.
SelectProviders == <<MetaOpenAI>>

\* Here inflight is the sequence of what waits to be handled, in the order
\* it was produced; the program's channel may hand over any of them next.
InitSelect ==
    /\ environ = Environ
    /\ globalFile = FileAbsent
    /\ projectFile = FileAbsent
    /\ cacheFile = CacheAbsent
    /\ dataDirOK = TRUE
    /\ now = 0
    /\ pc = "select"
    /\ cfg = Nil
    /\ loadErr = NoError
    /\ savedFile = NoSavedFile
    /\ provResult = NoProvResult
    /\ builder = NoBuilder
    /\ built = NoBuilt
    /\ merge = NoMerge
    /\ resolver = NoResolver
    /\ resolved = NoResolved
    /\ wizard = NewWizard(SelectProviders)
    /\ inflight = <<>>
    /\ wlog = NoLog
    /\ issuedToken = NoToken
    /\ fsys = NoFsys
    /\ found = Nil

\* The sequence q without its i-th element.
Without(q, i) == SubSeq(q, 1, i - 1) \o SubSeq(q, i + 1, Len(q))

\* The sequence q followed by the commands of cmds, at most one here.
Queued(q, cmds) ==
    IF cmds = {} THEN q ELSE Append(q, CHOOSE c \in cmds : TRUE)

\* One turn of the event loop on msg, r being what Wizard.Update returned
\* and rest what still waits.
SelectHandled(r, msg, kind, rest) ==
    /\ wizard' = View(r.m)
    /\ inflight' = Queued(rest, r.cmds)
    /\ wlog' = [wlog EXCEPT
                  !.event = [kind |-> kind, msg |-> msg, step |-> wizard.step],
                  !.cred = credAfter(@, msg, wizard.step)]
    /\ UNCHANGED savedFile
    /\ WizardFrame

\* A key press is read, whatever still waits.
DoSelectKey ==
    /\ pc = "select"
    /\ ~wizard.panicked
    /\ wizard.step # StepComplete
    /\ Len(inflight) < MaxQueue
    /\ \E k \in WizardKeys(wizard.step) :
         /\ k \in TypedChars => Len(wizard.apiKeyInput[1].value) < MaxInput
         /\ SelectHandled(WizardUpdate(wizard, KeyMsg(k), 1), KeyMsg(k), "key",
                          inflight)

\* One of the waiting messages reaches Wizard.Update.
DoSelectDeliver ==
    /\ pc = "select"
    /\ ~wizard.panicked
    /\ \E i \in 1..Len(inflight) :
         /\ inflight[i].type \notin {"saveConfig", "CompleteMsg", "InfoMsg"}
         /\ SelectHandled(WizardUpdate(wizard, inflight[i], 1), inflight[i],
                          "deliver", Without(inflight, i))

\* The closure of saveConfig runs and writes the global file.
DoSelectSave ==
    /\ pc = "select"
    /\ ~wizard.panicked
    /\ \E i \in 1..Len(inflight), writable \in BOOLEAN :
         /\ inflight[i] = saveConfigCmd
         /\ savedFile' = saveConfig(wizard, savedFile, writable).file
         /\ inflight' =
               Append(Without(inflight, i),
                      saveConfigMsg(wizard,
                                    saveConfig(wizard, savedFile, writable).err))
    /\ wlog' = [wlog EXCEPT
                  !.event = [kind |-> "save", msg |-> saveConfigCmd,
                             step |-> wizard.step]]
    /\ UNCHANGED wizard
    /\ WizardFrame

NextSelect == DoSelectKey \/ DoSelectDeliver \/ DoSelectSave

SpecSelect == InitSelect /\ [][NextSelect]_vars

\* The step hands a ModelSelectedMsg made by the large-model list to the
\* wizard.
LargeSelectionDelivered ==
    /\ wlog'.event.kind = "deliver"
    /\ wlog'.event.msg.type = "ModelSelectedMsg"
    /\ wlog'.event.msg.Tier = "large"

\* One step, as C32 wants it.
C32_SelectionStep ==
    LargeSelectionDelivered =>
        /\ wizard'.selectedSmall = wizard.selectedSmall
        /\ wizard'.step # StepComplete

\* C32: a ModelSelectedMsg produced by the large-model list never sets the
\* small model and never completes the wizard, also when a second Enter
\* was read before the first selection was handled.
C32_SmallModelFromSmallList == [][C32_SelectionStep]_vars

----------------------------------------------------------------------------
(* A start of the program: Load, then NewBuilder and BuildModels *)

\* A descriptor that declares a small default only.
MetaOpenAISmallOnly ==
    CatwalkProvider("openai", "OpenAI", TypeOpenAI, <<"o">>, "", "gpt-4o-mini",
                    <<CatwalkModel("gpt-4o-mini", "GPT-4o Mini")>>)

\* A provider list an earlier fetch or UpdateProviders left in the cache
\* file.
SmallOnlyProviders == <<MetaOpenAISmallOnly, MetaAnthropic>>

\* The global files of a user who has configured keys and no tier.
StartFiles ==
    {File(EmptyMap, Overlay(a, b), MissingOptions) :
        a \in OptMaps("openai", {ProviderConfig(KeyLiteral, FALSE, Nil)}),
        b \in OptMaps("anthropic", {ProviderConfig(KeyLiteral, FALSE, Nil),
                                    ProviderConfig(KeyLiteral, TRUE, Nil)})}

InitStart ==
    /\ environ = Environ
    /\ globalFile \in StartFiles
    /\ projectFile = FileAbsent
    /\ cacheFile \in {CacheAbsent, ProvidersCache(0, OldProviders),
                      ProvidersCache(0, SmallOnlyProviders)}
    /\ dataDirOK \in BOOLEAN
    /\ now = 1
    /\ pc = "saved"
    /\ cfg = Nil
    /\ loadErr = NoError
    /\ savedFile = NoSavedFile
    /\ provResult = NoProvResult
    /\ builder = NoBuilder
    /\ built = NoBuilt
    /\ merge = NoMerge
    /\ resolver = NoResolver
    /\ resolved = NoResolved
    /\ TuiIdle

NextStart == DoLoadSaved \/ DoStartBuilder \/ DoBuildModels \/ DoNewBuilder

SpecStart == InitStart /\ [][NextStart]_vars

\* Load has returned a Config whose tiers it chose itself.
LoadedByDefaults ==
    /\ pc \in {"loaded", "builder"}
    /\ cfg # Nil
    /\ globalFile.doc.models = EmptyMap
    /\ projectFile.doc.models = EmptyMap

\* C37: whenever Load succeeds through default tier selection the large
\* tier is configured, and a BuildModels that follows does not fail with
\* "large model not configured".
C37_DefaultsConfigureLarge ==
    LoadedByDefaults =>
        /\ SelectedModelTypeLarge \in DOMAIN cfg[1].Models
        /\ built.called => built.err.what # "large model not configured"

====
